---- MODULE Spec2Model ----
(***************************************************************************)
(* Model of the three LLM-coordinated TSP evaluations                      *)
(*   evaluations/tsp/llm_flat_tsp.py          (peer negotiation)           *)
(*   evaluations/tsp/llm_auction_tsp.py       (sequential auction)         *)
(*   evaluations/tsp/llm_hierarchical_tsp.py  (leader / followers)         *)
(* and of the route helpers of evaluations/tsp/utils.py.                   *)
(*                                                                         *)
(* Every llm.call_llm is an oracle step: the answer is drawn from a small  *)
(* set of response shapes (failure text, JSON that is not an object, JSON  *)
(* object with missing / wrong-typed / well-typed fields).  An exception   *)
(* the evaluation does not catch ends the run in pc = "crashed".           *)
(*                                                                         *)
(* City indices are 0-based as in the source; TLA+ sequences are 1-based,  *)
(* so python's  xs[i]  is  xs[i + 1]  here.  Distances are counted in      *)
(* hundredths (floor of 100 * sqrt) and are floats: a sum is rounded to    *)
(* the nearest value with MantissaBits significant bits, ties to even, as  *)
(* binary64 rounds to 53.                                                  *)
(***************************************************************************)
EXTENDS Integers, Sequences, FiniteSets, TLC

(***************************************************************************)
(* Bounds of the model                                                     *)
(***************************************************************************)
MaxRounds == 2          \* max_negotiation_rounds ranges over 0..MaxRounds
MaxClaimLen == 2        \* longest claimed_cities list an agent answers
MaxCoord == 10          \* city coordinates lie in 0..MaxCoord
MantissaBits == 10      \* significant bits a float keeps

(***************************************************************************)
(* Generic helpers on sequences (python list idioms)                       *)
(***************************************************************************)
Range(s) == {s[i] : i \in 1..Len(s)}

Contains(s, x) == \E i \in 1..Len(s) : s[i] = x

SeqsUpTo(S, k) == UNION {[1..m -> S] : m \in 0..k}

\* all orders of the elements of S
Perms(S) ==
    {p \in [1..Cardinality(S) -> S] :
        \A i, j \in 1..Cardinality(S) : i # j => p[i] # p[j]}

\* xs[:k]
Take(s, k) == SubSeq(s, 1, IF Len(s) < k THEN Len(s) ELSE k)

\* [x for x in s if x in keep]
RECURSIVE FilterIn(_, _)
FilterIn(s, keep) ==
    IF s = <<>> THEN <<>>
    ELSE IF Head(s) \in keep THEN <<Head(s)>> \o FilterIn(Tail(s), keep)
         ELSE FilterIn(Tail(s), keep)

\* list.remove(x): drops the first occurrence
RECURSIVE RemoveFirst(_, _)
RemoveFirst(s, x) ==
    IF s = <<>> THEN <<>>
    ELSE IF Head(s) = x THEN Tail(s)
         ELSE <<Head(s)>> \o RemoveFirst(Tail(s), x)

\* len(set(s)) == len(s)
NoDup(s) == \A i, j \in 1..Len(s) : i # j => s[i] # s[j]

RECURSIVE SumSeq(_)
SumSeq(s) == IF s = <<>> THEN 0 ELSE Head(s) + SumSeq(Tail(s))

(***************************************************************************)
(* utils.py : TSPUtils                                                     *)
(***************************************************************************)
\* floor(sqrt(x)) by bisection on lo..hi
RECURSIVE SqrtSearch(_, _, _)
SqrtSearch(x, lo, hi) ==
    IF lo >= hi THEN lo
    ELSE LET mid == (lo + hi + 1) \div 2
         IN  IF mid * mid <= x THEN SqrtSearch(x, mid, hi)
             ELSE SqrtSearch(x, lo, mid - 1)

\* floor(100 * sqrt(d2)) for every squared distance of two cities
SqrtTable ==
    [d2 \in 0..(2 * MaxCoord * MaxCoord) |->
        SqrtSearch(10000 * d2, 0, 100 * d2)]

\* math.sqrt(dx**2 + dy**2), in hundredths
calculate_distance(city1, city2) ==
    SqrtTable[(city1[1] - city2[1]) * (city1[1] - city2[1])
              + (city1[2] - city2[2]) * (city1[2] - city2[2])]

RECURSIVE Pow2(_)
Pow2(k) == IF k = 0 THEN 1 ELSE 2 * Pow2(k - 1)

\* the spacing of the floats around x >= 0, found from spacing u upwards
RECURSIVE UlpFrom(_, _)
UlpFrom(x, u) == IF x < Pow2(MantissaBits) * u THEN u ELSE UlpFrom(x, 2 * u)

Ulp(x) == UlpFrom(x, 1)

\* the float nearest to x >= 0, ties to the even neighbour
FloatRound(x) ==
    LET u == Ulp(x)
        q == x \div u
        r == x % u
    IN  IF 2 * r < u THEN q * u
        ELSE IF 2 * r > u THEN (q + 1) * u
        ELSE (IF q % 2 = 0 THEN q ELSE q + 1) * u

\* a + b on floats
FloatAdd(a, b) == FloatRound(a + b)

\* the float nearest to x, of either sign
FloatSigned(x) == IF x >= 0 THEN FloatRound(x) ELSE 0 - FloatRound(0 - x)

\* a - b on floats
FloatSub(a, b) == FloatSigned(a - b)

\* acc += x for x in s, left to right
RECURSIVE FloatSumFrom(_, _)
FloatSumFrom(acc, s) ==
    IF s = <<>> THEN acc ELSE FloatSumFrom(FloatAdd(acc, Head(s)), Tail(s))

\* the length of the path along route, without the leg back to its start
calculate_route_distance_open(cs, route) ==
    LET n == Len(route)
        leg(i) == calculate_distance(cs[route[i] + 1], cs[route[i + 1] + 1])
    IN  FloatSumFrom(0, [i \in 1..(n - 1) |-> leg(i)])

\* closed tour: leg i goes from route[i] to route[(i + 1) % len(route)];
\* the legs are added to total_distance in the order of the route
calculate_route_distance(cs, route) ==
    LET n == Len(route)
        leg(i) == calculate_distance(cs[route[i] + 1],
                                     cs[route[((i % n) + 1)] + 1])
    IN  FloatSumFrom(0, [i \in 1..n |-> leg(i)])

\* the highest index among the nearest
NearestHighestIndex(cs, current, unvisited) ==
    CHOOSE c \in unvisited :
        \A d \in unvisited :
            \/ calculate_distance(cs[current + 1], cs[c + 1])
                 < calculate_distance(cs[current + 1], cs[d + 1])
            \/ /\ calculate_distance(cs[current + 1], cs[c + 1])
                    = calculate_distance(cs[current + 1], cs[d + 1])
               /\ c >= d

\* min(unvisited, key=distance from current): first minimum in iteration
\* order of a set of small ints, i.e. the lowest index among the nearest
Nearest(cs, current, unvisited) ==
    CHOOSE c \in unvisited :
        \A d \in unvisited :
            \/ calculate_distance(cs[current + 1], cs[c + 1])
                 < calculate_distance(cs[current + 1], cs[d + 1])
            \/ /\ calculate_distance(cs[current + 1], cs[c + 1])
                    = calculate_distance(cs[current + 1], cs[d + 1])
               /\ c <= d

RECURSIVE NNExtend(_, _, _)
NNExtend(cs, route, unvisited) ==
    IF unvisited = {} THEN route
    ELSE LET nearest == Nearest(cs, route[Len(route)], unvisited)
         IN  NNExtend(cs, Append(route, nearest), unvisited \ {nearest})

\* nearest_neighbor_tsp with the route begun at index 0 whatever start_city
nearest_neighbor_from_zero(cs, start_city) ==
    NNExtend(cs, <<0>>, (0..(Len(cs) - 1)) \ {0})

\* nearest_neighbor_tsp(cities, start_city): the route (local indices),
\* for a start_city that unvisited.remove finds
nearest_neighbor_from(cs, start_city) ==
    NNExtend(cs, <<start_city>>, (0..(Len(cs) - 1)) \ {start_city})

\* unvisited.remove(current) raises KeyError for a start_city that is not
\* in set(range(n))
NearestNeighborRaises(cs, start_city) == start_city \notin 0..(Len(cs) - 1)

\* nearest_neighbor_tsp(cities): the route from the default start_city = 0
nearest_neighbor_route(cs) == nearest_neighbor_from(cs, 0)

\* its second component
nearest_neighbor_distance(cs) ==
    calculate_route_distance(cs, nearest_neighbor_route(cs))

\* route[:i+1] + route[i+1:j+1][::-1] + route[j+1:], i and j counted from 0
ReverseSegment(route, i, j) ==
    [k \in 1..Len(route) |->
        IF k >= i + 2 /\ k <= j + 1 THEN route[(i + j + 3) - k] ELSE route[k]]

\* the (i, j) of the two nested loops in loop order, without the skipped
\* pair i = 0, j = len(route) - 1
RECURSIVE PairsFrom(_, _, _)
PairsFrom(i, j, n) ==
    IF i > n - 2 THEN <<>>
    ELSE IF j > n - 1 THEN PairsFrom(i + 1, i + 3, n)
    ELSE (IF j = n - 1 /\ i = 0 THEN <<>> ELSE << <<i, j>> >>)
            \o PairsFrom(i, j + 1, n)

SegmentPairs(n) == PairsFrom(0, 2, n)

\* a pass that ends at the first reversal shorter than the best so far
RECURSIVE ScanPairsStoppingAtFirst(_, _, _, _)
ScanPairsStoppingAtFirst(cs, route, pairs, best) ==
    IF pairs = <<>> THEN best
    ELSE LET new_route == ReverseSegment(route, Head(pairs)[1], Head(pairs)[2])
             new_distance == calculate_route_distance(cs, new_route)
         IN  IF new_distance < best.distance
             THEN [route |-> new_route, distance |-> new_distance,
                   improved |-> TRUE]
             ELSE ScanPairsStoppingAtFirst(cs, route, Tail(pairs), best)

\* one pass of the two nested loops: every reversal is made from the order
\* the pass began with, and best_route, best_distance change whenever a
\* reversal is shorter than the best so far
RECURSIVE ScanPairs(_, _, _, _)
ScanPairs(cs, route, pairs, best) ==
    IF pairs = <<>> THEN best
    ELSE LET new_route == ReverseSegment(route, Head(pairs)[1], Head(pairs)[2])
             new_distance == calculate_route_distance(cs, new_route)
         IN  ScanPairs(cs, route, Tail(pairs),
                 IF new_distance < best.distance
                 THEN [route |-> new_route, distance |-> new_distance,
                       improved |-> TRUE]
                 ELSE best)

\* for _ in range(max_iterations): a pass, break when it improved nothing,
\* else route = best_route.copy()
RECURSIVE TwoOptFrom(_, _, _, _)
TwoOptFrom(cs, route, best, iterations_left) ==
    IF iterations_left <= 0 THEN best
    ELSE LET after == ScanPairs(cs, route, SegmentPairs(Len(route)),
                                [best EXCEPT !.improved = FALSE])
         IN  IF ~after.improved THEN after
             ELSE TwoOptFrom(cs, after.route, after, iterations_left - 1)

\* the optimised order returned with the length of the order given
optimize_route_2opt_stale_distance(cs, route, max_iterations) ==
    [TwoOptFrom(cs, route,
                [route |-> route,
                 distance |-> calculate_route_distance(cs, route),
                 improved |-> FALSE],
                max_iterations)
        EXCEPT !.distance = calculate_route_distance(cs, route)]

\* optimize_route_2opt(cities, route, max_iterations): best_route and
\* best_distance
optimize_route_2opt(cs, route, max_iterations) ==
    TwoOptFrom(cs, route,
               [route |-> route,
                distance |-> calculate_route_distance(cs, route),
                improved |-> FALSE],
               max_iterations)

\* [cities[i] for i in idx]
Coords(cs, idx) == [k \in 1..Len(idx) |-> cs[idx[k] + 1]]

\* list(range(n))
ListRange(n) == [k \in 1..n |-> k - 1]

(***************************************************************************)
(* Inputs of a run                                                         *)
(***************************************************************************)
Square == << <<0, 0>>, <<10, 0>>, <<10, 10>>, <<0, 10>> >>
Pair == << <<0, 0>>, <<3, 4>> >>
Single == << <<0, 0>> >>

\* (cities, n_agents) pairs the evaluations are started with
Configs ==
    { [cities |-> Square, n_agents |-> 1],
      [cities |-> Pair, n_agents |-> 2],
      [cities |-> Single, n_agents |-> 2],
      [cities |-> <<>>, n_agents |-> 2],
      [cities |-> Single, n_agents |-> 0] }

Topologies == {"flat", "auction", "hierarchical"}

Seeds == {42, 7}

\* the seeds a single evaluation is started with: an auction draws no
\* random value, so its default seed stands for all of them
SeedsOf(t) == IF t = "auction" THEN {42} ELSE Seeds

\* any value that is not the name of an agent of the run
NoAgent == -1

VARIABLES
    topology,               \* which evaluate_llm_*_tsp is running
    cities,                 \* the city list, 1-based sequence of <<x, y>>
    n_agents,
    max_negotiation_rounds, \* flat only
    seed,
    prior_runs,             \* evaluations this process ran before this one
    events_before,          \* len(logger.communications) when the run started
    rng,                    \* state of the module-level random generator
    draws,                  \* values drawn from it since random.seed
    pc,                     \* position in the evaluation
    cur,                    \* loop index of the loop pc is in
    round_num,              \* flat: index of the negotiation round
    agent_assignments,      \* agent -> list of city indices
    unassigned_cities,      \* flat: list of city indices
    round_claims,           \* flat: agent -> valid_claims of this round
    conflicts,              \* flat: contested cities, in pool order
    resolved_assignments,   \* flat: list of <<city, winner>> (dict order)
    budget,                 \* auction: agent -> remaining budget
    bids,                   \* auction: agent -> amount, 0 = not in bids
    auction_results,        \* auction: list of result records
    clusters,               \* hierarchical: list of lists of city indices
    agent_routes,           \* agent -> reported route
    agent_distances,        \* agent -> reported distance
    total_distance,
    agent_loads,            \* list of loads, in agent order
    load_fairness,          \* flat: load_fairness metric, in thousandths
    route_response,         \* answer to the last route prompt
    all_calls_failed,       \* every call_llm so far returned its failure text
    communications,         \* len(logger.communications)
    llm_calls,              \* len(logger.llm_calls)
    u_call,                 \* direct call of a helper: its name and arguments
    u_result,               \* what that call returned
    architecture_results,   \* run_llm_evaluation: the entries recorded, in run order
    comparison              \* run_llm_evaluation: architecture_comparison

vars == << topology, cities, n_agents, max_negotiation_rounds, seed,
           prior_runs, events_before, rng, draws, pc, cur,
           round_num, agent_assignments, unassigned_cities, round_claims,
           conflicts, resolved_assignments, budget, bids, auction_results,
           clusters, agent_routes, agent_distances, total_distance,
           agent_loads, load_fairness, route_response, all_calls_failed,
           communications, llm_calls, u_call, u_result,
           architecture_results, comparison >>

Agents == 0..(n_agents - 1)

NCities == Len(cities)

CityIdx == 0..(NCities - 1)

\* values an oracle may put where a city index is expected: the real
\* indices and one index that names no city
IdxValues == 0..NCities

(***************************************************************************)
(* The random module: a deterministic generator whose whole state is set   *)
(* by random.seed(seed); random.choice(seq) reads it and advances it.      *)
(***************************************************************************)
RandomSeed(s) == s % 16

RngNext(r) == (5 * r + 3) % 16

RandomChoice(seq, r) == seq[((r \div 4) % Len(seq)) + 1]

(***************************************************************************)
(* Reported routes: a list, or whatever non-list value the oracle sent     *)
(***************************************************************************)
ListRoute(s) == [shape |-> "list", items |-> s]

ScalarRoute == [shape |-> "scalar", items |-> <<>>]

(***************************************************************************)
(* Shapes of oracle answers.  kind "fail" is any text json.loads rejects   *)
(* (the "LLM call failed: ..." message included); "nonobj" is valid JSON   *)
(* whose top level is not an object; "obj" is a JSON object.  A field is   *)
(* "missing", a "scalar" (number / null) or a "list" of integers.          *)
(***************************************************************************)
PlainResponses == {[kind |-> "fail"], [kind |-> "nonobj"], [kind |-> "obj"]}

ListResponses(lists) ==
    {[kind |-> "fail", field |-> "missing", list |-> <<>>],
     [kind |-> "nonobj", field |-> "missing", list |-> <<>>],
     [kind |-> "obj", field |-> "missing", list |-> <<>>],
     [kind |-> "obj", field |-> "scalar", list |-> <<>>]}
    \cup {[kind |-> "obj", field |-> "list", list |-> l] :
             l \in lists}

MediatorResponses ==
    {[kind |-> "fail", has_winner |-> FALSE, winner |-> NoAgent],
     [kind |-> "nonobj", has_winner |-> FALSE, winner |-> NoAgent],
     [kind |-> "obj", has_winner |-> FALSE, winner |-> NoAgent]}
    \cup {[kind |-> "obj", has_winner |-> TRUE, winner |-> w] :
             w \in Agents \cup {NoAgent}}

\* claimed_cities lists an agent may answer: the short lists, and the
\* list of all cities
ClaimLists == SeqsUpTo(IdxValues, MaxClaimLen) \cup {ListRange(NCities)}

\* route lists an agent holding city_indices may answer: every order of its
\* cities in global indices, every order in local indices, and from the
\* in-order list of either form one list that is too short, one too long,
\* one with a repeated value, one with an index that names no city
Defects(b) ==
    IF b = <<>> THEN {<<>>}
    ELSE { SubSeq(b, 1, Len(b) - 1),
           Append(b, b[1]),
           [b EXCEPT ![Len(b)] = b[1]],
           [b EXCEPT ![1] = NCities] }

RouteLists(city_indices) ==
    Perms(Range(city_indices)) \cup Perms(0..(Len(city_indices) - 1))
    \cup Defects(city_indices) \cup Defects(ListRange(Len(city_indices)))

NoResponse == [kind |-> "none", field |-> "missing", list |-> <<>>]

\* Money is a float; its values are counted in quarters of a currency unit,
\* so that an amount below one unit can be told from 0
PerUnit == 4

\* "budget": 1000
StartBudget == 1000 * PerUnit

\* bid_amount values a bidder may answer, winning_bid values the auctioneer
\* may answer: whole units, and for the auctioneer a quarter of a unit
BidAmounts == {-50 * PerUnit, 0, 50 * PerUnit, 2000 * PerUnit}

PriceAmounts == {-100 * PerUnit, 1, 50 * PerUnit, 600 * PerUnit}

\* answers to the bidding prompt: bid_amount is missing, a number (or a
\* numeric string), text float() rejects, or a value float() cannot take
BidResponses ==
    {[kind |-> "fail", field |-> "missing", amount |-> 0],
     [kind |-> "nonobj", field |-> "missing", amount |-> 0],
     [kind |-> "obj", field |-> "missing", amount |-> 0],
     [kind |-> "obj", field |-> "text", amount |-> 0],
     [kind |-> "obj", field |-> "null", amount |-> 0]}
    \cup {[kind |-> "obj", field |-> "number", amount |-> b] : b \in BidAmounts}

\* answers of the auctioneer: winner is missing, a hashable value (an agent
\* name or not) or an unhashable one; winning_bid is missing, a number or
\* not a number
DecisionResponses ==
    {[kind |-> "fail", winner_field |-> "missing", winner |-> NoAgent,
      price_field |-> "missing", price |-> 0],
     [kind |-> "nonobj", winner_field |-> "missing", winner |-> NoAgent,
      price_field |-> "missing", price |-> 0]}
    \cup {[kind |-> "obj", winner_field |-> wf, winner |-> w,
           price_field |-> pf, price |-> p] :
             wf \in {"value"}, w \in Agents \cup {NoAgent},
             pf \in {"number"}, p \in PriceAmounts}
    \cup {[kind |-> "obj", winner_field |-> wf, winner |-> NoAgent,
           price_field |-> pf, price |-> p] :
             wf \in {"missing", "unhashable"},
             pf \in {"number"}, p \in PriceAmounts}
    \cup {[kind |-> "obj", winner_field |-> "value", winner |-> w,
           price_field |-> pf, price |-> 0] :
             w \in Agents \cup {NoAgent}, pf \in {"missing", "text"}}
    \cup {[kind |-> "obj", winner_field |-> wf, winner |-> NoAgent,
           price_field |-> pf, price |-> 0] :
             wf \in {"missing", "unhashable"}, pf \in {"missing", "text"}}

\* the clusters a labelling of the cities with labels 0..k-1 stands for:
\* [idx for idx, label in enumerate(cluster_labels) if label == i]
LabelClusters(labels, k) ==
    [i \in 1..k |-> FilterIn(ListRange(NCities),
                             {c \in CityIdx : labels[c] = i - 1})]

\* "clusters" lists the leader may answer: every split of the cities into
\* n_agents groups; the same with one group dropped or with an extra group;
\* one group holding all cities in any order; one short group of any
\* content; two groups of at most one city each
ClusterLists ==
    LET splits == {LabelClusters(l, n_agents) : l \in [CityIdx -> Agents]}
    IN  splits
        \cup {SubSeq(c, 1, Len(c) - 1) : c \in splits}
        \cup {Append(c, <<0>>) : c \in splits}
        \cup {<<g>> : g \in Perms(CityIdx)}
        \cup {<<g>> : g \in SeqsUpTo(IdxValues, 2)}
        \cup {<<g, h>> : g \in SeqsUpTo(CityIdx, 1), h \in SeqsUpTo(IdxValues, 1)}

\* answers of the leader: "clusters" is missing, a scalar or a list of lists
LeaderResponses ==
    {[kind |-> "fail", field |-> "missing", groups |-> <<>>],
     [kind |-> "nonobj", field |-> "missing", groups |-> <<>>],
     [kind |-> "obj", field |-> "missing", groups |-> <<>>],
     [kind |-> "obj", field |-> "scalar", groups |-> <<>>]}
    \cup {[kind |-> "obj", field |-> "list", groups |-> c] : c \in ClusterLists}

(***************************************************************************)
(* Start of a run                                                          *)
(***************************************************************************)
EmptyLists == [a \in Agents |-> <<>>]

\* a round that goes to its assignments before any claim was collected
RoundEntryClaimless(r, pool) ==
    IF r < max_negotiation_rounds /\ pool # <<>> THEN "apply" ELSE "leftover"

\* head of "for round_num in range(max_negotiation_rounds)"; without
\* agents the round has no claims and no conflicts
RoundEntry(r, pool) ==
    IF r < max_negotiation_rounds /\ pool # <<>>
    THEN (IF n_agents = 0 THEN "apply" ELSE "claim")
    ELSE "leftover"

\* the first loop or call that does something in evaluate_llm_<t>_tsp
\* started with n agents, the city indices pool and rounds rounds
EntryPc(t, n, pool, rounds) ==
    CASE t = "flat" ->
             IF n > 0 THEN "assess"
             ELSE IF 0 < rounds /\ pool # <<>> THEN "apply"
             ELSE "leftover"
      [] t = "auction" -> "setup"
      [] t = "hierarchical" -> "leader"

StartPc(t) == EntryPc(t, n_agents, ListRange(NCities), max_negotiation_rounds)

\* an entry that leaves the random module as the process left it
EntryRngKept(t, s, old) == old

\* the random module after the entry statements of evaluate_llm_<t>_tsp
EntryRng(t, s, old) == IF t = "hierarchical" THEN old ELSE RandomSeed(s)

\* no helper was called directly
NoCall == [op |-> "none", order |-> <<>>, arg |-> 0, variant |-> "none"]

NoResult ==
    [raised |-> FALSE, order |-> <<>>, value |-> 0, before |-> 0,
     text |-> "none"]

\* a call of evaluate_llm_<t>_tsp in a fresh process, after its entry
\* statements (random.seed, get_llm_integration, get_logger, the empty
\* containers)
Init ==
    \E cfg \in Configs, t \in Topologies, rounds \in 0..MaxRounds :
      \E s \in SeedsOf(t) :
        /\ topology = t
        /\ cities = cfg.cities
        /\ n_agents = cfg.n_agents
        /\ max_negotiation_rounds = IF t = "flat" THEN rounds ELSE 0
        /\ seed = s
        /\ prior_runs = 0
        /\ events_before = 0
        /\ rng = EntryRng(t, s, 0)
        /\ draws = 0
        /\ pc = StartPc(t)
        /\ load_fairness = 0
        /\ u_call = NoCall
        /\ u_result = NoResult
        /\ architecture_results = <<>>
        /\ comparison = <<>>
        /\ cur = 0
        /\ round_num = 0
        /\ agent_assignments = [a \in 0..(cfg.n_agents - 1) |-> <<>>]
        /\ unassigned_cities =
               IF t = "flat" THEN ListRange(Len(cfg.cities)) ELSE <<>>
        /\ round_claims = [a \in 0..(cfg.n_agents - 1) |-> <<>>]
        /\ conflicts = <<>>
        /\ resolved_assignments = <<>>
        /\ budget = [a \in 0..(cfg.n_agents - 1) |->
                        IF t = "auction" THEN StartBudget ELSE 0]
        /\ bids = [a \in 0..(cfg.n_agents - 1) |-> 0]
        /\ auction_results = <<>>
        /\ clusters = <<>>
        /\ agent_routes = [a \in 0..(cfg.n_agents - 1) |-> ListRoute(<<>>)]
        /\ agent_distances = [a \in 0..(cfg.n_agents - 1) |-> 0]
        /\ total_distance = 0
        /\ agent_loads = <<>>
        /\ route_response = NoResponse
        /\ all_calls_failed = TRUE
        /\ communications = 0
        /\ llm_calls = 0

(***************************************************************************)
(* Frames                                                                  *)
(***************************************************************************)
inputVars == << topology, cities, n_agents, max_negotiation_rounds, seed >>

\* what the process held when the run was started
entryVars == << prior_runs, events_before >>

\* the helper calls made outside of a run
\* what run_llm_evaluation keeps
driverVars == << architecture_results, comparison >>

harnessVars == << u_call, u_result, driverVars >>

\* what no step of a run changes besides its arguments
outerVars == << entryVars, harnessVars >>

rngVars == << rng, draws >>

flatVars == << round_num, unassigned_cities, round_claims, conflicts,
               resolved_assignments >>

auctionVars == << budget, bids, auction_results >>

resultVars == << agent_routes, agent_distances, total_distance, agent_loads,
                load_fairness, route_response >>

\* the locals of the evaluation before its first statement
NoLocals ==
    /\ cur' = 0
    /\ round_num' = 0
    /\ agent_assignments' = EmptyLists
    /\ unassigned_cities' = <<>>
    /\ round_claims' = EmptyLists
    /\ conflicts' = <<>>
    /\ resolved_assignments' = <<>>
    /\ budget' = [a \in Agents |-> 0]
    /\ bids' = [a \in Agents |-> 0]
    /\ auction_results' = <<>>
    /\ clusters' = <<>>
    /\ agent_routes' = [a \in Agents |-> ListRoute(<<>>)]
    /\ agent_distances' = [a \in Agents |-> 0]
    /\ total_distance' = 0
    /\ agent_loads' = <<>>
    /\ load_fairness' = 0
    /\ route_response' = NoResponse

\* call_llm returned resp: it is the failure text of the except branch of
\* call_llm only when json.loads rejects it
Called(resp) == all_calls_failed' = (all_calls_failed /\ resp.kind = "fail")

NotCalled == UNCHANGED all_calls_failed

\* an exception no handler of the evaluation catches: the frame is unwound
\* and its locals are gone; the logger and the random module keep their
\* state.  calls and events are the oracle calls and the communications the
\* failing step logged before it raised.
Raise(calls, events) ==
    /\ pc' = "crashed"
    /\ llm_calls' = llm_calls + calls
    /\ communications' = communications + events
    /\ all_calls_failed' = (all_calls_failed /\ calls = 0)
    /\ NoLocals
    /\ UNCHANGED << inputVars, outerVars, rngVars >>

Crash == Raise(1, 0)

(***************************************************************************)
(* Route validation of the flat and auction evaluations                    *)
(***************************************************************************)
\* planned_route after the try/except around json.loads
ParsedRoute(resp, city_indices) ==
    IF resp.kind = "fail" \/ resp.field = "missing" THEN ListRoute(city_indices)
    ELSE IF resp.field = "scalar" THEN ScalarRoute
    ELSE ListRoute(resp.list)

\* len(planned_route) == len(city_indices) and
\* set(planned_route) == set(city_indices) and all ints
RouteAccepted(planned, city_indices) ==
    /\ Len(planned) = Len(city_indices)
    /\ Range(planned) = Range(city_indices)

\* <<planned_route, actual_distance>> for an agent with >= 2 cities
RouteMoreCities(planned, city_indices) ==
    IF RouteAccepted(planned, city_indices)
    THEN << ListRoute(planned),
            calculate_route_distance(Coords(cities, planned),
                                     ListRange(Len(planned))) >>
    ELSE LET agent_cities == Coords(cities, city_indices)
             route == nearest_neighbor_route(agent_cities)
         IN  << ListRoute([k \in 1..Len(route) |-> city_indices[route[k] + 1]]),
                nearest_neighbor_distance(agent_cities) >>

\* len() of a number or of null raises TypeError
RouteRaises(resp, city_indices) ==
    \/ resp.kind = "nonobj"
    \/ /\ Len(city_indices) > 1
       /\ ParsedRoute(resp, city_indices).shape = "scalar"

RouteOutcome(resp, city_indices) ==
    IF Len(city_indices) <= 1
    THEN << ParsedRoute(resp, city_indices), 0 >>
    ELSE RouteMoreCities(ParsedRoute(resp, city_indices).items, city_indices)

\* what the route prompt of an agent can be answered; an agent without
\* cities is not asked
RouteResponses(city_indices) ==
    IF city_indices = <<>> THEN {NoResponse}
    ELSE ListResponses(RouteLists(city_indices))

\* total_distance += actual_distance, with the addition left out
AddDistanceDropped(total, actual_distance) == total

\* total_distance += actual_distance
AddDistance(total, actual_distance) == FloatAdd(total, actual_distance)

\* sum((load - mean_load) ** 2 for load in loads) * len(loads) ** 2
SquaredDeviations(loads) ==
    SumSeq([k \in 1..Len(loads) |->
               (Len(loads) * loads[k] - SumSeq(loads))
                   * (Len(loads) * loads[k] - SumSeq(loads))])

\* the metric with the deviations summed without being squared
LoadFairnessUnsquared(loads) ==
    LET n == Len(loads)
        total == SumSeq(loads)
        deviations == SumSeq([k \in 1..n |-> n * loads[k] - total])
    IN  IF n = 0 \/ total <= 0 THEN 0
        ELSE SqrtSearch((1000000 * deviations) \div (n * total * total),
                        0, 10000)

\* "Calculate load fairness": mean_load = sum / len (0 for no loads),
\* load_variance = sum((load - mean_load) ** 2) / len,
\* load_fairness = load_variance ** 0.5 / mean_load if mean_load > 0 else 0.
\* With n = len and t = sum the quotient is sqrt(sum((n*load - t)**2) / n) / t;
\* the result is its floor in thousandths.
LoadFairness(loads) ==
    LET n == Len(loads)
        total == SumSeq(loads)
    IN  IF n = 0 \/ total <= 0 THEN 0
        ELSE SqrtSearch((1000000 * SquaredDeviations(loads))
                            \div (n * total * total), 0, 10000)

\* load_fairness once the loads of all agents are known; only the flat
\* evaluation computes it
FinalFairness(loads) ==
    IF topology = "flat" /\ Len(loads) = n_agents THEN LoadFairness(loads)
    ELSE load_fairness

\* one iteration of "for agent_name in agent_names" of the route phase;
\* after the last agent the metrics are computed and the record is returned
RouteStep(resp) ==
    LET city_indices == agent_assignments[cur]
    IN  /\ resp \in RouteResponses(city_indices)
        /\ IF city_indices = <<>>
           THEN /\ resp = NoResponse
                /\ agent_loads' = Append(agent_loads, 0)
                /\ load_fairness' = FinalFairness(Append(agent_loads, 0))
                /\ agent_routes' = [agent_routes EXCEPT ![cur] = ListRoute(<<>>)]
                /\ agent_distances' = [agent_distances EXCEPT ![cur] = 0]
                /\ cur' = cur + 1
                /\ pc' = IF cur + 1 = n_agents THEN "done" ELSE pc
                /\ UNCHANGED << inputVars, outerVars, rngVars, flatVars,
                                agent_assignments,
                                auctionVars, clusters, total_distance,
                                route_response, all_calls_failed,
                                communications, llm_calls >>
           ELSE IF RouteRaises(resp, city_indices)
           THEN Crash
           ELSE LET out == RouteOutcome(resp, city_indices)
                IN  /\ agent_loads' = Append(agent_loads, Len(city_indices))
                    /\ load_fairness' =
                           FinalFairness(Append(agent_loads, Len(city_indices)))
                    /\ agent_routes' = [agent_routes EXCEPT ![cur] = out[1]]
                    /\ agent_distances' =
                           [agent_distances EXCEPT ![cur] = out[2]]
                    /\ total_distance' = AddDistance(total_distance, out[2])
                    /\ route_response' = resp
                    /\ llm_calls' = llm_calls + 1
                    /\ Called(resp)
                    /\ communications' = communications + 1
                    /\ cur' = cur + 1
                    /\ pc' = IF cur + 1 = n_agents THEN "done" ELSE pc
                    /\ UNCHANGED << inputVars, outerVars, rngVars, flatVars,
                                    agent_assignments, auctionVars, clusters >>

(***************************************************************************)
(* evaluate_llm_flat_tsp                                                   *)
(***************************************************************************)
\* number of entries of agent_specialties
NumSpecialties == 6

\* Step 1: initial assessment of agent cur
FlatAssess(resp) ==
    /\ pc = "assess"
    /\ IF cur >= NumSpecialties
       THEN Raise(0, 0)
       ELSE IF resp.kind = "nonobj"
       THEN Crash
       ELSE /\ llm_calls' = llm_calls + 1
            /\ Called(resp)
            /\ communications' = communications + 1
            /\ cur' = IF cur + 1 = n_agents THEN 0 ELSE cur + 1
            /\ pc' = IF cur + 1 = n_agents
                     THEN RoundEntry(0, unassigned_cities) ELSE pc
            /\ UNCHANGED << inputVars, outerVars, rngVars, flatVars, agent_assignments,
                            auctionVars, clusters, resultVars >>

\* claimed_cities after the try/except around json.loads
ParsedClaims(resp) ==
    IF resp.kind = "obj" /\ resp.field = "list" THEN resp.list ELSE <<>>

\* the filter without the cut after the third claim
ValidClaimsUncut(claimed, pool) == FilterIn(claimed, Range(pool))

\* [c for c in claimed_cities if c in unassigned_cities][:3]
ValidClaims(claimed, pool) == Take(FilterIn(claimed, Range(pool)), 3)

\* [agent for agent, data in round_claims.items() if city in data["claims"]]
Claimants(claims, city) ==
    LET RECURSIVE From(_)
        From(a) == IF a >= n_agents THEN <<>>
                   ELSE IF Contains(claims[a], city)
                        THEN <<a>> \o From(a + 1)
                        ELSE From(a + 1)
    IN  From(0)

\* keys of the conflicts dict: pool cities with more than one claimant
ConflictCities(claims, pool) ==
    LET RECURSIVE Scan(_)
        Scan(p) == IF p = <<>> THEN <<>>
                   ELSE IF Len(Claimants(claims, Head(p))) > 1
                        THEN <<Head(p)>> \o Scan(Tail(p))
                        ELSE Scan(Tail(p))
    IN  Scan(pool)

\* Step 2: agent cur answers the negotiation prompt of this round
FlatClaim(resp) ==
    /\ pc = "claim"
    /\ IF resp.kind = "nonobj" \/ (resp.kind = "obj" /\ resp.field = "scalar")
       THEN Crash
       ELSE LET valid_claims == ValidClaims(ParsedClaims(resp), unassigned_cities)
                claims == [round_claims EXCEPT ![cur] = valid_claims]
                found == ConflictCities(claims, unassigned_cities)
            IN  /\ round_claims' = claims
                /\ llm_calls' = llm_calls + 1
                /\ Called(resp)
                /\ communications' = communications + 1
                /\ IF cur + 1 = n_agents
                   THEN /\ conflicts' = found
                        /\ resolved_assignments' = <<>>
                        /\ cur' = 0
                        /\ pc' = IF found # <<>> THEN "mediate" ELSE "apply"
                   ELSE /\ cur' = cur + 1
                        /\ UNCHANGED << conflicts, resolved_assignments, pc >>
                /\ UNCHANGED << inputVars, outerVars, rngVars, round_num, unassigned_cities,
                                agent_assignments, auctionVars, clusters,
                                resultVars >>

\* Step 3: the mediator decides conflict number cur
FlatMediate(resp) ==
    /\ pc = "mediate"
    /\ IF resp.kind = "nonobj"
       THEN Crash
       ELSE LET city == conflicts[cur + 1]
                claimants == Claimants(round_claims, city)
                winner == IF resp.kind = "obj" /\ resp.has_winner
                          THEN resp.winner
                          ELSE RandomChoice(claimants, rng)
            IN  /\ rng' = RngNext(rng)
                /\ draws' = draws + 1
                /\ llm_calls' = llm_calls + 1
                /\ Called(resp)
                /\ IF Contains(claimants, winner)
                   THEN /\ resolved_assignments' =
                               Append(resolved_assignments, <<city, winner>>)
                        /\ communications' = communications + 1
                   ELSE UNCHANGED << resolved_assignments, communications >>
                /\ cur' = IF cur + 1 = Len(conflicts) THEN 0 ELSE cur + 1
                /\ pc' = IF cur + 1 = Len(conflicts) THEN "apply" ELSE pc
                /\ UNCHANGED << inputVars, outerVars, round_num, unassigned_cities,
                                round_claims, conflicts, agent_assignments,
                                auctionVars, clusters, resultVars >>

\* d[k] = v on an insertion-ordered dict kept as a list of <<k, v>>
DictSet(d, k, v) ==
    IF \E i \in 1..Len(d) : d[i][1] = k
    THEN [i \in 1..Len(d) |-> IF d[i][1] = k THEN <<k, v>> ELSE d[i]]
    ELSE Append(d, <<k, v>>)

\* a round end that applies the mediator's decisions only
WithUncontestedSkipped(resolved, claims, contested) == resolved

\* "Assign uncontested cities": every claim outside conflicts goes to its
\* claimant
WithUncontested(resolved, claims, contested) ==
    LET RECURSIVE OfAgent(_, _, _)
        OfAgent(d, a, cs) ==
            IF cs = <<>> THEN d
            ELSE IF Contains(contested, Head(cs))
                 THEN OfAgent(d, a, Tail(cs))
                 ELSE OfAgent(DictSet(d, Head(cs), a), a, Tail(cs))
        RECURSIVE From(_, _)
        From(d, a) == IF a >= n_agents THEN d
                      ELSE From(OfAgent(d, a, claims[a]), a + 1)
    IN  From(resolved, 0)

\* an update that puts the new city in the place of the winner's list
RECURSIVE AppendResolvedReplacing(_, _)
AppendResolvedReplacing(assign, resolved) ==
    IF resolved = <<>> THEN assign
    ELSE AppendResolvedReplacing(
             [assign EXCEPT ![Head(resolved)[2]] = <<Head(resolved)[1]>>],
             Tail(resolved))

\* "Update assignments and remove assigned cities"
RECURSIVE AppendResolved(_, _)
AppendResolved(assign, resolved) ==
    IF resolved = <<>> THEN assign
    ELSE AppendResolved(
             [assign EXCEPT ![Head(resolved)[2]] = Append(@, Head(resolved)[1])],
             Tail(resolved))

\* a round end that leaves the assigned cities in the pool
RemoveResolvedKept(pool, resolved) == pool

RECURSIVE RemoveResolved(_, _)
RemoveResolved(pool, resolved) ==
    IF resolved = <<>> THEN pool
    ELSE RemoveResolved(RemoveFirst(pool, Head(resolved)[1]), Tail(resolved))

\* end of a round: uncontested claims, then the assignments are applied.
\* round_claims and resolved_assignments are not read again before the next
\* round rebinds them to {}, so they are shown empty from here on.
FlatApply ==
    /\ pc = "apply"
    /\ LET resolved == WithUncontested(resolved_assignments, round_claims,
                                       conflicts)
           pool == RemoveResolved(unassigned_cities, resolved)
       IN  /\ resolved_assignments' = <<>>
           /\ agent_assignments' = AppendResolved(agent_assignments, resolved)
           /\ unassigned_cities' = pool
           /\ round_num' = round_num + 1
           /\ pc' = RoundEntry(round_num + 1, pool)
           /\ round_claims' = EmptyLists
    /\ cur' = 0
    /\ UNCHANGED << inputVars, outerVars, rngVars, conflicts, auctionVars, clusters,
                    resultVars, all_calls_failed, communications,
                    llm_calls >>

\* the loop as it would run if it removed from the pool it iterates over:
\* every second city is skipped
RECURSIVE AssignRemainingSkipping(_, _, _)
AssignRemainingSkipping(assign, pool, r) ==
    IF pool = <<>> THEN << assign, r >>
    ELSE LET agent_name == RandomChoice(ListRange(n_agents), r)
         IN  AssignRemainingSkipping(
                 [assign EXCEPT ![agent_name] = Append(@, Head(pool))],
                 IF Len(pool) >= 2 THEN Tail(Tail(pool)) ELSE <<>>, RngNext(r))

\* "Assign any remaining cities randomly": <<assignments, rng>> after the loop
RECURSIVE AssignRemaining(_, _, _)
AssignRemaining(assign, pool, r) ==
    IF pool = <<>> THEN << assign, r >>
    ELSE LET agent_name == RandomChoice(ListRange(n_agents), r)
         IN  AssignRemaining([assign EXCEPT ![agent_name] = Append(@, Head(pool))],
                             Tail(pool), RngNext(r))

\* the leftover loop; random.choice([]) raises IndexError when there is a
\* city left and no agent.  Without agents the route loop is empty and the
\* record is returned.
FlatLeftover ==
    /\ pc = "leftover"
    /\ IF n_agents = 0 /\ unassigned_cities # <<>>
       THEN Raise(0, 0)
       ELSE /\ LET out == AssignRemaining(agent_assignments,
                                         unassigned_cities, rng)
               IN  /\ agent_assignments' = out[1]
                   /\ rng' = out[2]
            /\ draws' = draws + Len(unassigned_cities)
            /\ pc' = IF n_agents = 0 THEN "done" ELSE "route"
            /\ cur' = 0
            /\ UNCHANGED << inputVars, outerVars, flatVars, auctionVars,
                            clusters, resultVars, all_calls_failed,
                            communications, llm_calls >>

\* Step 4: agent cur plans its final route
FlatRoute ==
    /\ topology = "flat"
    /\ pc = "route"
    /\ \E resp \in RouteResponses(agent_assignments[cur]) : RouteStep(resp)

FlatNext ==
    \/ \E resp \in PlainResponses : FlatAssess(resp)
    \/ \E resp \in ListResponses(ClaimLists) : FlatClaim(resp)
    \/ \E resp \in MediatorResponses : FlatMediate(resp)
    \/ FlatApply
    \/ FlatLeftover
    \/ FlatRoute

(***************************************************************************)
(* evaluate_llm_auction_tsp                                                *)
(***************************************************************************)
\* index of the city being auctioned: one result is appended per city
city_idx == Len(auction_results)

\* a record that names the first bidder the winner of an auction nobody
\* bid in
NoWinnerResultFirstBidder(city) ==
    [city |-> city, winner |-> 0, winning_bid |-> 0, total_bids |-> 0,
     reasoning |-> "No bids received"]

\* the record of an auction nobody bid in
NoWinnerResult(city) ==
    [city |-> city, winner |-> NoAgent, winning_bid |-> 0, total_bids |-> 0,
     reasoning |-> "No bids received"]

\* Step 1: the auctioneer introduces the auction; its answer is only logged
\* Without bidders the strategy loop is empty, every city is recorded as
\* having no bids, the route loop is empty and the record is returned.
AuctionSetup(resp) ==
    /\ pc = "setup"
    /\ llm_calls' = llm_calls + 1
    /\ Called(resp)
    /\ communications' = communications + 1
    /\ pc' = IF n_agents = 0 THEN "done" ELSE "strategy"
    /\ auction_results' =
           IF n_agents = 0 THEN [i \in 1..NCities |-> NoWinnerResult(i - 1)]
           ELSE auction_results
    /\ cur' = 0
    /\ UNCHANGED << inputVars, outerVars, rngVars, flatVars, agent_assignments,
                    budget, bids, clusters, resultVars >>

\* a loop over the cities that leaves the last one out
AuctionEntryOneShort(done) == IF done + 1 < NCities THEN "bid" ELSE "route"

\* head of "for city_idx, city_coords in enumerate(cities)"
AuctionEntry(done) == IF done < NCities THEN "bid" ELSE "route"

\* Step 2: bidder cur declares its strategy
AuctionStrategy(resp) ==
    /\ pc = "strategy"
    /\ IF cur >= NumSpecialties
       THEN Raise(0, 0)
       ELSE IF resp.kind = "nonobj"
       THEN Crash
       ELSE /\ llm_calls' = llm_calls + 1
            /\ Called(resp)
            /\ communications' = communications + 1
            /\ cur' = IF cur + 1 = n_agents THEN 0 ELSE cur + 1
            /\ pc' = IF cur + 1 = n_agents THEN AuctionEntry(0) ELSE pc
            /\ UNCHANGED << inputVars, outerVars, rngVars, flatVars, agent_assignments,
                            auctionVars, clusters, resultVars >>

\* bid_amount after the try/except and the budget cap
\* min(bid_amount, data["budget"])
CappedBid(resp, remaining) ==
    LET bid_amount == IF resp.kind = "obj" /\ resp.field = "number"
                      THEN resp.amount ELSE 0
    IN  IF bid_amount < remaining THEN bid_amount ELSE remaining

\* float(None), float([...]) raise TypeError, which the handler lets through
BidRaises(resp) ==
    \/ resp.kind = "nonobj"
    \/ resp.kind = "obj" /\ resp.field = "null"

NoBids == [a \in Agents |-> 0]

\* Step 3, bidding: bidder cur bids on city city_idx; after the last bidder
\* an auction without bids is recorded at once
AuctionBid(resp) ==
    /\ pc = "bid"
    /\ IF budget[cur] > 0 /\ BidRaises(resp)
       THEN Crash
       ELSE LET asked == budget[cur] > 0
                bid_amount == IF asked THEN CappedBid(resp, budget[cur]) ELSE 0
                entered == IF bid_amount > 0
                           THEN [bids EXCEPT ![cur] = bid_amount] ELSE bids
            IN  /\ asked \/ resp = [kind |-> "fail", field |-> "missing",
                                    amount |-> 0]
                /\ llm_calls' = IF asked THEN llm_calls + 1 ELSE llm_calls
                /\ IF asked THEN Called(resp) ELSE NotCalled
                /\ communications' = IF bid_amount > 0
                                     THEN communications + 1 ELSE communications
                /\ bids' = entered
                /\ IF cur + 1 < n_agents
                   THEN /\ cur' = cur + 1
                        /\ pc' = pc
                        /\ UNCHANGED auction_results
                   ELSE /\ cur' = 0
                        /\ IF entered = NoBids
                           THEN /\ auction_results' =
                                       Append(auction_results,
                                              NoWinnerResult(city_idx))
                                /\ pc' = AuctionEntry(city_idx + 1)
                           ELSE /\ pc' = "decide"
                                /\ UNCHANGED auction_results
                /\ UNCHANGED << inputVars, outerVars, rngVars, flatVars, agent_assignments,
                                budget, clusters, resultVars >>

\* the last bidder, in insertion order, with the largest amount
HighestBidderLast(b) ==
    CHOOSE w \in Agents :
        /\ b[w] > 0
        /\ \A o \in Agents : b[o] < b[w] \/ (b[o] = b[w] /\ w >= o)

\* max(bids.keys(), key=lambda k: bids[k]["amount"]): the first bidder, in
\* insertion order, with the largest amount
HighestBidder(b) ==
    CHOOSE w \in Agents :
        /\ b[w] > 0
        /\ \A o \in Agents : b[o] < b[w] \/ (b[o] = b[w] /\ w <= o)

\* bids[winner] with an unhashable winner raises TypeError
DecisionRaises(resp) ==
    \/ resp.kind = "nonobj"
    \/ resp.kind = "obj" /\ resp.winner_field = "unhashable"

\* winner inside the try block: the answer's value, or the highest bidder
\* when the key is missing
TryWinner(resp, b) ==
    IF resp.winner_field = "value" THEN resp.winner ELSE HighestBidder(b)

\* the try block ends without KeyError: the answer parses and bids[winner]
\* exists
TryOk(resp, b) ==
    /\ resp.kind = "obj"
    /\ TryWinner(resp, b) \in Agents
    /\ b[TryWinner(resp, b)] > 0

\* winner after the try/except and "if winner not in bids"
DecidedWinner(resp, b) ==
    IF TryOk(resp, b) THEN TryWinner(resp, b) ELSE HighestBidder(b)

\* winning_bid: the auctioneer's value when the try block succeeds and the
\* key is there, the winner's own bid otherwise
DecidedPrice(resp, b) ==
    IF TryOk(resp, b) /\ resp.price_field = "number"
    THEN resp.price
    ELSE b[DecidedWinner(resp, b)]

\* auctioneer_reasoning: the answer's text (or its default) when the try
\* block succeeds, the text of the except branch otherwise
DecidedReasoning(resp, b) ==
    IF TryOk(resp, b) THEN "given" ELSE "Fallback to highest bidder"

\* budget -= winning_bid with a winning_bid that is not a number
PriceRaises(resp, b) == TryOk(resp, b) /\ resp.price_field = "text"

\* an award that always goes to the first bidder's list
AwardCityToFirst(assign, winner, city) ==
    [assign EXCEPT ![0] = Append(@, city)]

\* agent_data[winner]["assigned_cities"].append(city_idx)
AwardCity(assign, winner, city) ==
    [assign EXCEPT ![winner] = Append(@, city)]

\* a debit taken from every bidder
DebitEveryBidder(b, winner, winning_bid) ==
    [a \in DOMAIN b |-> FloatSub(b[a], winning_bid)]

\* agent_data[winner]["budget"] -= winning_bid
Debit(b, winner, winning_bid) ==
    [b EXCEPT ![winner] = FloatSub(@, winning_bid)]

\* Step 3, decision: the auctioneer picks the winner of city city_idx
AuctionDecide(resp) ==
    /\ pc = "decide"
    /\ IF DecisionRaises(resp) \/ PriceRaises(resp, bids)
       THEN Crash
       ELSE LET winner == DecidedWinner(resp, bids)
                winning_bid == DecidedPrice(resp, bids)
            IN  /\ auction_results' =
                       Append(auction_results,
                              [city |-> city_idx, winner |-> winner,
                               winning_bid |-> winning_bid,
                               total_bids |->
                                   Cardinality({a \in Agents : bids[a] > 0}),
                               reasoning |-> DecidedReasoning(resp, bids)])
                /\ agent_assignments' =
                       AwardCity(agent_assignments, winner, city_idx)
                /\ budget' = Debit(budget, winner, winning_bid)
                /\ bids' = NoBids
                /\ llm_calls' = llm_calls + 1
                /\ Called(resp)
                /\ communications' = communications + 1
                /\ cur' = 0
                /\ pc' = AuctionEntry(city_idx + 1)
                /\ UNCHANGED << inputVars, outerVars, rngVars, flatVars, clusters, resultVars >>

\* [result["winning_bid"] for result in auction_results if result["winner"]]
RECURSIVE RecordedPrices(_)
RecordedPrices(results) ==
    IF results = <<>> THEN <<>>
    ELSE IF Head(results).winner = NoAgent
         THEN RecordedPrices(Tail(results))
         ELSE <<Head(results).winning_bid>> \o RecordedPrices(Tail(results))

\* sum(...) of money amounts, left to right on floats
RECURSIVE MoneySumFrom(_, _)
MoneySumFrom(acc, s) ==
    IF s = <<>> THEN acc
    ELSE MoneySumFrom(FloatSigned(acc + Head(s)), Tail(s))

\* total_revenue, reported as total_auction_revenue
total_revenue(results) == MoneySumFrom(0, RecordedPrices(results))

\* money_spent = [1000 - data["budget"] for data in agent_data.values()]
money_spent(b) == [k \in 1..n_agents |-> FloatSub(StartBudget, b[k - 1])]

\* Step 4: bidder cur plans its final route
AuctionRoute ==
    /\ topology = "auction"
    /\ pc = "route"
    /\ \E resp \in RouteResponses(agent_assignments[cur]) : RouteStep(resp)

AuctionNext ==
    \/ \E resp \in PlainResponses : AuctionSetup(resp)
    \/ \E resp \in PlainResponses : AuctionStrategy(resp)
    \/ \E resp \in BidResponses : AuctionBid(resp)
    \/ \E resp \in DecisionResponses : AuctionDecide(resp)
    \/ AuctionRoute

(***************************************************************************)
(* TSPUtils.cluster_cities and evaluate_llm_hierarchical_tsp               *)
(***************************************************************************)
\* clusters taken from the labels whatever the number of cities
cluster_cities_always_labelled(labels, n_clusters) ==
    LabelClusters(labels, n_clusters)

\* cluster_cities(cities, n_clusters): with fewer cities than clusters one
\* singleton per city; otherwise the clusters of the labels KMeans returns.
\* KMeans is not modelled: labels is any labelling with 0..n_clusters-1.
cluster_cities(labels, n_clusters) ==
    IF NCities < n_clusters
    THEN [i \in 1..NCities |-> <<i - 1>>]
    ELSE LabelClusters(labels, n_clusters)

\* KMeans(n_clusters=0) is rejected by scikit-learn with an exception
ClusterRaises(n_clusters) == NCities >= n_clusters /\ n_clusters = 0

\* the labellings KMeans may return for n_agents clusters
Labellings == IF n_agents = 0 THEN {[c \in CityIdx |-> 0]} ELSE [CityIdx -> Agents]

\* clusters after the try/except around json.loads of the leader's answer
ParsedClusters(resp, labels) ==
    IF resp.kind = "fail" THEN cluster_cities(labels, n_agents)
    ELSE IF resp.field = "list" THEN resp.groups
    ELSE <<>>

\* range(min(len(clusters), n_agents))
NumFollowers(cl) == IF Len(cl) < n_agents THEN Len(cl) ELSE n_agents

\* Step 1: the leader partitions the cities
HierLeader(resp, labels) ==
    /\ pc = "leader"
    /\ IF \/ resp.kind = "nonobj"
          \/ resp.kind = "obj" /\ resp.field = "scalar"
          \/ resp.kind = "fail" /\ ClusterRaises(n_agents)
       THEN Crash
       ELSE LET cl == ParsedClusters(resp, labels)
            IN  /\ clusters' = cl
                /\ llm_calls' = llm_calls + 1
                /\ Called(resp)
                /\ communications' = communications + 1
                /\ cur' = 0
                /\ pc' = IF NumFollowers(cl) = 0 THEN "finish" ELSE "follower"
                /\ UNCHANGED << inputVars, outerVars, rngVars, flatVars, agent_assignments,
                                auctionVars, resultVars >>

\* planned_route after the try/except: the nearest-neighbour route (local
\* indices) when the answer does not parse, range(len) when "route" is missing
HierParsedRoute(resp, city_indices) ==
    IF resp.kind = "fail"
    THEN ListRoute(nearest_neighbor_route(Coords(cities, city_indices)))
    ELSE IF resp.field = "missing" THEN ListRoute(ListRange(Len(city_indices)))
    ELSE IF resp.field = "scalar" THEN ScalarRoute
    ELSE ListRoute(resp.list)

\* all(isinstance(x, int) and 0 <= x < len(city_indices) ...)
AllLocal(planned, m) == \A k \in 1..Len(planned) : planned[k] \in 0..(m - 1)

\* route_valid
HierRouteValid(planned, city_indices) ==
    /\ planned.shape = "list"
    /\ Len(planned.items) = Len(city_indices)
    /\ IF AllLocal(planned.items, Len(city_indices))
       THEN NoDup(planned.items)
       ELSE /\ \A k \in 1..Len(planned.items) :
                   Contains(city_indices, planned.items[k])
            /\ NoDup(planned.items)

\* global_route
HierGlobalRoute(planned, city_indices) ==
    IF ~HierRouteValid(planned, city_indices) THEN city_indices
    ELSE IF AllLocal(planned.items, Len(city_indices))
         THEN [k \in 1..Len(planned.items) |->
                  city_indices[planned.items[k] + 1]]
         ELSE planned.items

\* actual_distance
HierDistance(planned, city_indices) ==
    LET agent_cities == Coords(cities, city_indices)
    IN  IF Len(city_indices) <= 1 THEN 0
        ELSE IF HierRouteValid(planned, city_indices)
                /\ AllLocal(planned.items, Len(city_indices))
             THEN calculate_route_distance(
                      [k \in 1..Len(planned.items) |->
                          agent_cities[planned.items[k] + 1]],
                      ListRange(Len(planned.items)))
             ELSE calculate_route_distance(agent_cities,
                                           ListRange(Len(agent_cities)))

\* Step 2: follower cur is given clusters[cur] and plans its route
HierFollower(resp) ==
    LET city_indices == clusters[cur + 1]
        next_pc == IF cur + 1 = NumFollowers(clusters) THEN "finish" ELSE pc
    IN  /\ pc = "follower"
        /\ resp \in RouteResponses(FilterIn(city_indices, CityIdx))
        /\ IF city_indices = <<>>
           THEN /\ agent_loads' = Append(agent_loads, 0)
                /\ agent_routes' = [agent_routes EXCEPT ![cur] = ListRoute(<<>>)]
                /\ agent_distances' = [agent_distances EXCEPT ![cur] = 0]
                /\ cur' = cur + 1
                /\ pc' = next_pc
                /\ UNCHANGED << inputVars, outerVars, rngVars, flatVars,
                                agent_assignments, load_fairness,
                                auctionVars, clusters, total_distance,
                                route_response, all_calls_failed,
                                communications, llm_calls >>
           ELSE IF \E k \in 1..Len(city_indices) : city_indices[k] \notin CityIdx
           THEN \* cities[j] raises IndexError before the follower is asked
                Raise(0, 0)
           ELSE IF resp.kind = "nonobj"
           THEN Raise(1, 1)
           ELSE LET planned == HierParsedRoute(resp, city_indices)
                    actual_distance == HierDistance(planned, city_indices)
                IN  /\ agent_loads' = Append(agent_loads, Len(city_indices))
                    /\ agent_assignments' =
                           [agent_assignments EXCEPT ![cur] = city_indices]
                    /\ agent_routes' =
                           [agent_routes EXCEPT
                               ![cur] = ListRoute(HierGlobalRoute(planned,
                                                                  city_indices))]
                    /\ agent_distances' =
                           [agent_distances EXCEPT ![cur] = actual_distance]
                    /\ total_distance' =
                           AddDistance(total_distance, actual_distance)
                    /\ route_response' = resp
                    /\ llm_calls' = llm_calls + 1
                    /\ Called(resp)
                    /\ communications' = communications + 2
                    /\ cur' = cur + 1
                    /\ pc' = next_pc
                    /\ UNCHANGED << inputVars, outerVars, rngVars, flatVars,
                                    auctionVars, clusters, load_fairness >>

\* the clustering-efficiency loop reads cities[cluster[i]] in every cluster
\* of two or more entries
EfficiencyRaises(cl) ==
    \E g \in 1..Len(cl) :
        /\ Len(cl[g]) >= 2
        /\ \E k \in 1..Len(cl[g]) : cl[g][k] \notin CityIdx

\* Step 3: final synthesis call (its answer is only stored), metrics and
\* the returned record
HierFinish(resp) ==
    /\ pc = "finish"
    /\ IF EfficiencyRaises(clusters)
       THEN Crash
       ELSE /\ pc' = "done"
            /\ llm_calls' = llm_calls + 1
            /\ Called(resp)
            /\ UNCHANGED << inputVars, outerVars, rngVars, cur, flatVars, agent_assignments,
                            auctionVars, clusters, resultVars, communications >>

HierNext ==
    \/ \E resp \in LeaderResponses, labels \in Labellings :
           HierLeader(resp, labels)
    \/ /\ pc = "follower"
       /\ \E resp \in RouteResponses(FilterIn(clusters[cur + 1], CityIdx)) :
              HierFollower(resp)
    \/ \E resp \in PlainResponses : HierFinish(resp)

Next == FlatNext \/ AuctionNext \/ HierNext

Spec == Init /\ [][Next]_vars

(***************************************************************************)
(* Several evaluations in one process.  get_logger() returns the one       *)
(* module-level LLMLogger and the random module is process-wide, so the    *)
(* next evaluation starts with what the earlier ones left there.  The      *)
(* loop of run_llm_evaluation (llm_main.py) clears both lists of the       *)
(* logger before each evaluation; a caller of evaluate_llm_<t>_tsp may not.*)
(***************************************************************************)
MaxRuns == 2

\* the inputs of the evaluations run in sequence
SeqConfigs == {[cities |-> Single, n_agents |-> 2]}

SeqRounds == 0..1

InitSeq ==
    /\ Init
    /\ \E cfg \in SeqConfigs : cities = cfg.cities /\ n_agents = cfg.n_agents
    /\ max_negotiation_rounds \in SeqRounds

\* the evaluation has returned or raised, and the process starts the next
\* one; cleared: the caller emptied the logger first
NextRun(cfg, t, s, rounds, cleared) ==
    /\ pc \in {"done", "crashed"}
    /\ prior_runs + 1 < MaxRuns
    /\ prior_runs' = prior_runs + 1
    /\ topology' = t
    /\ cities' = cfg.cities
    /\ n_agents' = cfg.n_agents
    /\ max_negotiation_rounds' = IF t = "flat" THEN rounds ELSE 0
    /\ seed' = s
    /\ communications' = IF cleared THEN 0 ELSE communications
    /\ llm_calls' = IF cleared THEN 0 ELSE llm_calls
    /\ events_before' = IF cleared THEN 0 ELSE communications
    /\ rng' = EntryRng(t, s, rng)
    /\ draws' = IF t = "hierarchical" THEN draws ELSE 0
    /\ pc' = EntryPc(t, cfg.n_agents, ListRange(Len(cfg.cities)),
                     IF t = "flat" THEN rounds ELSE 0)
    /\ cur' = 0
    /\ round_num' = 0
    /\ agent_assignments' = [a \in 0..(cfg.n_agents - 1) |-> <<>>]
    /\ unassigned_cities' =
           IF t = "flat" THEN ListRange(Len(cfg.cities)) ELSE <<>>
    /\ round_claims' = [a \in 0..(cfg.n_agents - 1) |-> <<>>]
    /\ conflicts' = <<>>
    /\ resolved_assignments' = <<>>
    /\ budget' = [a \in 0..(cfg.n_agents - 1) |->
                     IF t = "auction" THEN StartBudget ELSE 0]
    /\ bids' = [a \in 0..(cfg.n_agents - 1) |-> 0]
    /\ auction_results' = <<>>
    /\ clusters' = <<>>
    /\ agent_routes' = [a \in 0..(cfg.n_agents - 1) |-> ListRoute(<<>>)]
    /\ agent_distances' = [a \in 0..(cfg.n_agents - 1) |-> 0]
    /\ total_distance' = 0
    /\ agent_loads' = <<>>
    /\ load_fairness' = 0
    /\ route_response' = NoResponse
    /\ all_calls_failed' = TRUE
    /\ UNCHANGED harnessVars

SeqNext ==
    \/ Next
    \/ \E cfg \in SeqConfigs, t \in Topologies, s \in Seeds,
          rounds \in SeqRounds, cleared \in BOOLEAN :
           NextRun(cfg, t, s, rounds, cleared)

SpecSeq == InitSeq /\ [][SeqNext]_vars

(***************************************************************************)
(* Direct calls of the helpers: TSPUtils.nearest_neighbor_tsp and          *)
(* TSPUtils.calculate_route_distance on a city list, and                   *)
(* LLMIntegration.call_llm for every way the request can go.  u_call is    *)
(* the call made last, u_result what it returned.                          *)
(***************************************************************************)
MaxTourLen == 4         \* longest city list handed to the helpers
MaxCalls == 2           \* call_llm invocations in a row
MaxIterations == 2      \* largest max_iterations given to optimize_route_2opt
MaxClusters == 2        \* largest n_clusters given to cluster_cities

\* coordinates of the cities handed to the helpers
Points == {<<0, 0>>, <<10, 0>>, <<10, 10>>, <<3, 4>>}

UtilCities == SeqsUpTo(Points, MaxTourLen)

\* how the request of call_llm goes: a response with text and usage; the
\* request raises; the response has no choices; its content is None; the
\* cost of its token count cannot be computed
LLMOutcomes == {"ok", "request_raises", "no_choices", "no_content", "cost_raises"}

\* s[::-1]
Reverse(s) == [k \in 1..Len(s) |-> s[Len(s) + 1 - k]]

\* s[1:] + s[:1]
Rotate(s) == IF s = <<>> THEN s ELSE Append(Tail(s), Head(s))

\* call_llm whose except branch logs nothing
call_llm_silent_failure(outcome) ==
    IF outcome = "ok"
    THEN [text |-> "content", records |-> 1]
    ELSE [text |-> "failure", records |-> 0]

\* call_llm: the try block returns response_text after log_llm_call has
\* appended a record; every exception raised before that append is caught,
\* logged with one record, and "LLM call failed: ..." is returned
call_llm(outcome) ==
    IF outcome = "ok"
    THEN [text |-> "content", records |-> 1]
    ELSE [text |-> "failure", records |-> 0 + 1]

utilFrame ==
    << inputVars, entryVars, rngVars, pc, cur, round_num, agent_assignments,
       unassigned_cities, round_claims, conflicts, resolved_assignments,
       budget, bids, auction_results, clusters, agent_routes, agent_distances,
       total_distance, agent_loads, load_fairness, route_response,
       all_calls_failed, communications, driverVars >>

InitUtils ==
    /\ topology = "none"
    /\ cities \in UtilCities
    /\ n_agents = 0
    /\ max_negotiation_rounds = 0
    /\ seed = 42
    /\ prior_runs = 0
    /\ events_before = 0
    /\ rng = 0
    /\ draws = 0
    /\ pc = "utils"
    /\ load_fairness = 0
    /\ u_call = NoCall
    /\ u_result = NoResult
    /\ architecture_results = <<>>
    /\ comparison = <<>>
    /\ cur = 0
    /\ round_num = 0
    /\ agent_assignments = <<>>
    /\ unassigned_cities = <<>>
    /\ round_claims = <<>>
    /\ conflicts = <<>>
    /\ resolved_assignments = <<>>
    /\ budget = <<>>
    /\ bids = <<>>
    /\ auction_results = <<>>
    /\ clusters = <<>>
    /\ agent_routes = <<>>
    /\ agent_distances = <<>>
    /\ total_distance = 0
    /\ agent_loads = <<>>
    /\ route_response = NoResponse
    /\ all_calls_failed = TRUE
    /\ communications = 0
    /\ llm_calls = 0

\* TSPUtils.calculate_route_distance(cities, route)
RouteDistanceCall(route, variant, before) ==
    /\ u_call' = [op |-> "calculate_route_distance", order |-> route,
                  arg |-> 0, variant |-> variant]
    /\ u_result' = [raised |-> FALSE, order |-> <<>>,
                    value |-> calculate_route_distance(cities, route),
                    before |-> before, text |-> "none"]
    /\ UNCHANGED << utilFrame, llm_calls >>

\* the helper applied to an order of all the cities
UtilRouteDistance(route) ==
    /\ pc = "utils"
    /\ u_call = NoCall
    /\ RouteDistanceCall(route, "given", 0)

\* then to the same order started one position later
UtilRotated ==
    /\ pc = "utils"
    /\ u_call.op = "calculate_route_distance"
    /\ RouteDistanceCall(Rotate(u_call.order), "rotated", u_result.value)

\* or to the same order backwards
UtilReversed ==
    /\ pc = "utils"
    /\ u_call.op = "calculate_route_distance"
    /\ RouteDistanceCall(Reverse(u_call.order), "reversed", u_result.value)

\* TSPUtils.nearest_neighbor_tsp(cities, start_city)
UtilNearestNeighbor(start_city) ==
    /\ pc = "utils"
    /\ u_call = NoCall
    /\ u_call' = [op |-> "nearest_neighbor_tsp", order |-> <<>>,
                  arg |-> start_city, variant |-> "given"]
    /\ u_result' =
           IF NearestNeighborRaises(cities, start_city)
           THEN [NoResult EXCEPT !.raised = TRUE]
           ELSE LET route == nearest_neighbor_from(cities, start_city)
                IN  [NoResult EXCEPT
                        !.order = route,
                        !.value = calculate_route_distance(cities, route)]
    /\ UNCHANGED << utilFrame, llm_calls >>

\* the orders handed to optimize_route_2opt: the cities as listed, backwards,
\* and begun one position later
TwoOptOrders ==
    {ListRange(NCities), Reverse(ListRange(NCities)), Rotate(ListRange(NCities))}

\* TSPUtils.optimize_route_2opt(cities, route, max_iterations); u_call.order
\* is the caller's list after the call, which no statement of the function
\* writes to
UtilTwoOpt(route, max_iterations) ==
    /\ pc = "utils"
    /\ u_call = NoCall
    /\ u_call' = [op |-> "optimize_route_2opt", order |-> route,
                  arg |-> max_iterations, variant |-> "given"]
    /\ u_result' =
           LET best == optimize_route_2opt(cities, route, max_iterations)
           IN  [NoResult EXCEPT
                   !.order = best.route,
                   !.value = best.distance,
                   !.before = calculate_route_distance(cities, route)]
    /\ UNCHANGED << utilFrame, llm_calls >>

\* the labellings KMeans may return for n_clusters clusters
LabellingsFor(n_clusters) == [CityIdx -> 0..(n_clusters - 1)]

\* TSPUtils.cluster_cities(cities, n_clusters); the dict keyed 0, 1, ... is
\* the sequence of its values
UtilClusterCities(n_clusters, labels) ==
    /\ pc = "utils"
    /\ u_call = NoCall
    /\ u_call' = [op |-> "cluster_cities", order |-> <<>>,
                  arg |-> n_clusters, variant |-> "given"]
    /\ u_result' =
           IF ClusterRaises(n_clusters)
           THEN [NoResult EXCEPT !.raised = TRUE]
           ELSE [NoResult EXCEPT !.order = cluster_cities(labels, n_clusters)]
    /\ UNCHANGED << utilFrame, llm_calls >>

\* llm.call_llm(...); arg counts the invocations
UtilCallLLM(outcome) ==
    /\ pc = "utils"
    /\ u_call.op \in {"none", "call_llm"}
    /\ u_call.arg < MaxCalls
    /\ u_call' = [op |-> "call_llm", order |-> <<>>,
                  arg |-> u_call.arg + 1, variant |-> outcome]
    /\ u_result' = [NoResult EXCEPT !.text = call_llm(outcome).text]
    /\ llm_calls' = llm_calls + call_llm(outcome).records
    /\ UNCHANGED utilFrame

NextUtils ==
    \/ /\ u_call = NoCall
       /\ \E route \in Perms(CityIdx) : UtilRouteDistance(route)
    \/ UtilRotated
    \/ UtilReversed
    \/ /\ u_call = NoCall
       /\ \E start_city \in 0..NCities : UtilNearestNeighbor(start_city)
    \/ /\ u_call = NoCall
       /\ \E route \in TwoOptOrders, max_iterations \in 0..MaxIterations :
              UtilTwoOpt(route, max_iterations)
    \/ /\ u_call = NoCall
       /\ \E n_clusters \in 0..MaxClusters :
              \E labels \in LabellingsFor(IF n_clusters = 0 THEN 1 ELSE n_clusters) :
                  UtilClusterCities(n_clusters, labels)
    \/ \E outcome \in LLMOutcomes : UtilCallLLM(outcome)

SpecUtils == InitUtils /\ [][NextUtils]_vars

(***************************************************************************)
(* run_llm_evaluation (llm_main.py): the loop over scenarios and           *)
(* architectures.  An evaluation is taken here by its outcome: it raised   *)
(* or it returned a result, after logging some calls and events.           *)
(***************************************************************************)
NumScenarios == 2       \* scenarios of create_scenarios that are run

\* architectures, in the order of the inner loop
Architectures == <<"hierarchical", "flat", "auction">>

RunsTotal == NumScenarios * Len(Architectures)

\* float('inf')
Infinity == "inf"

\* what eval_func may do: raise after logging, return a short tour after one
\* event, return a longer tour after two
DriverOutcomes ==
    {[raised |-> TRUE, distance |-> 0, calls |-> 1, events |-> 1],
     [raised |-> FALSE, distance |-> 10, calls |-> 1, events |-> 1],
     [raised |-> FALSE, distance |-> 20, calls |-> 2, events |-> 2]}

\* a logger list that is left as it was
ListKept(length) == length

\* logger.llm_calls.clear(), logger.communications.clear(): the length after
ListCleared(length) == 0

\* architecture_results[arch_name] when the try block is left: result, with
\* the communication_overhead the evaluation took from the logger and the
\* llm_logs counts, or the dict of the except branch when eval_func or a
\* later statement of the try block (logger.save_logs()) raised
Recorded(o, log_saved, logged_calls, logged_events) ==
    IF o.raised \/ ~log_saved
    THEN [error |-> TRUE,
          total_distance |-> Infinity,
          communication_overhead |-> 0]
    ELSE [error |-> FALSE,
          total_distance |-> o.distance,
          communication_overhead |-> logged_events,
          total_calls |-> logged_calls,
          total_communications |-> logged_events]

\* one iteration of the inner loop: the logger is reset, the evaluation runs
\* and logs, and an entry is recorded
RunArchitecture(o, log_saved) ==
    /\ pc = "driver"
    /\ prior_runs < RunsTotal
    /\ llm_calls' = ListCleared(llm_calls) + o.calls
    /\ communications' = ListCleared(communications) + o.events
    /\ architecture_results' =
           Append(architecture_results,
                  Recorded(o, log_saved, llm_calls', communications'))
    /\ prior_runs' = prior_runs + 1
    /\ UNCHANGED << inputVars, events_before, rngVars, pc, cur, round_num,
                    agent_assignments, unassigned_cities, round_claims,
                    conflicts, resolved_assignments, budget, bids,
                    auction_results, clusters, agent_routes, agent_distances,
                    total_distance, agent_loads, load_fairness, route_response,
                    all_calls_failed, u_call, u_result, comparison >>

\* the entries of one architecture, in scenario order
EntriesOf(results, arch) ==
    [sc \in 1..NumScenarios |-> results[(sc - 1) * Len(Architectures) + arch]]

\* architecture_stats[arch_name]: the entries without an "error" key
StatsOf(results, arch) ==
    SelectSeq(EntriesOf(results, arch), LAMBDA e : ~e.error)

\* the comparison: an architecture has an entry when its distances list is
\* not empty; an average is kept as the sum and the count it divides
Compare(results) ==
    LET kept == {arch \in 1..Len(Architectures) : StatsOf(results, arch) # <<>>}
        distances(arch) ==
            [k \in 1..Len(StatsOf(results, arch)) |->
                StatsOf(results, arch)[k].total_distance]
        overheads(arch) ==
            [k \in 1..Len(StatsOf(results, arch)) |->
                StatsOf(results, arch)[k].communication_overhead]
    IN  [arch \in kept |->
            [avg_distance |->
                 [sum |-> FloatSumFrom(0, distances(arch)),
                  count |-> Len(distances(arch))],
             avg_communications |->
                 [sum |-> SumSeq(overheads(arch)),
                  count |-> Len(overheads(arch))],
             total_scenarios |-> Len(distances(arch))]]

\* after the loops: architecture_stats and architecture_comparison
ComparativeAnalysis ==
    /\ pc = "driver"
    /\ prior_runs = RunsTotal
    /\ comparison' = Compare(architecture_results)
    /\ pc' = "compared"
    /\ UNCHANGED << inputVars, entryVars, rngVars, cur, round_num,
                    agent_assignments, unassigned_cities, round_claims,
                    conflicts, resolved_assignments, budget, bids,
                    auction_results, clusters, agent_routes, agent_distances,
                    total_distance, agent_loads, load_fairness, route_response,
                    all_calls_failed, communications, llm_calls,
                    u_call, u_result, architecture_results >>

\* the state when the loop over the scenarios begins: the connection test
\* has made one call_llm, which left its record in the logger
InitDriver ==
    /\ topology = "none"
    /\ cities = <<>>
    /\ n_agents = 0
    /\ max_negotiation_rounds = 0
    /\ seed = 42
    /\ prior_runs = 0
    /\ events_before = 0
    /\ rng = 0
    /\ draws = 0
    /\ pc = "driver"
    /\ load_fairness = 0
    /\ u_call = NoCall
    /\ u_result = NoResult
    /\ architecture_results = <<>>
    /\ comparison = <<>>
    /\ cur = 0
    /\ round_num = 0
    /\ agent_assignments = <<>>
    /\ unassigned_cities = <<>>
    /\ round_claims = <<>>
    /\ conflicts = <<>>
    /\ resolved_assignments = <<>>
    /\ budget = <<>>
    /\ bids = <<>>
    /\ auction_results = <<>>
    /\ clusters = <<>>
    /\ agent_routes = <<>>
    /\ agent_distances = <<>>
    /\ total_distance = 0
    /\ agent_loads = <<>>
    /\ route_response = NoResponse
    /\ all_calls_failed = TRUE
    /\ communications = 0
    /\ \E outcome \in LLMOutcomes : llm_calls = call_llm(outcome).records

NextDriver ==
    \/ \E o \in DriverOutcomes, log_saved \in BOOLEAN :
           RunArchitecture(o, log_saved)
    \/ ComparativeAnalysis

SpecDriver == InitDriver /\ [][NextDriver]_vars

(***************************************************************************)
(* Properties                                                              *)
(***************************************************************************)
RECURSIVE Count(_, _)
Count(s, x) ==
    IF s = <<>> THEN 0
    ELSE (IF Head(s) = x THEN 1 ELSE 0) + Count(Tail(s), x)

\* number of times city c is held, over all agents
Holdings(c) == SumSeq([k \in 1..n_agents |-> Count(agent_assignments[k - 1], c)])

\* the agents' lists hold every city exactly once and nothing else
ExactCover ==
    /\ \A c \in CityIdx : Holdings(c) = 1
    /\ \A a \in Agents : Range(agent_assignments[a]) \subseteq CityIdx

\* C1: flat topology - once the negotiation rounds and the random
\* distribution of the leftover cities are over, every city index is in
\* exactly one agent's assignment list, exactly once, whatever the oracle
\* answered.
C1_FlatPartitionExact ==
    (topology = "flat" /\ pc \in {"route", "done"}) => ExactCover

\* C1 witness: 2 cities, 2 agents, all rounds used without any accepted
\* claim, so both cities went through the random fallback.
C1_BothCitiesLeftOver ==
    /\ topology = "flat"
    /\ pc = "done"
    /\ NCities = 2
    /\ n_agents = 2
    /\ max_negotiation_rounds >= 2
    /\ round_num = max_negotiation_rounds
    /\ Len(unassigned_cities) = 2

\* C2: auction topology, at least one city and one bidder - once all cities
\* have been auctioned, every city index is in exactly one bidder's
\* assigned_cities list.
C2_AuctionPartitionExact ==
    (/\ topology = "auction"
     /\ NCities >= 1
     /\ n_agents >= 1
     /\ pc \in {"route", "done"}) => ExactCover

\* number of times city c occurs in the clusters handed to followers
Handed(c) ==
    SumSeq([g \in 1..NumFollowers(clusters) |-> Count(clusters[g], c)])

\* C3: hierarchical topology, at least one city and one agent - the
\* clusters handed to the followers hold every city index exactly once and
\* no other index, whatever the leader answered.
C3_HandedClustersPartition ==
    (/\ topology = "hierarchical"
     /\ NCities >= 1
     /\ n_agents >= 1
     /\ pc \in {"follower", "finish", "done"}) =>
        /\ \A c \in CityIdx : Handed(c) = 1
        /\ \A g \in 1..NumFollowers(clusters) : Range(clusters[g]) \subseteq CityIdx

\* C4: no oracle answer aborts a run over at least one city and one agent -
\* the evaluation never ends in an uncaught exception.
C4_NoRunAborts == (NCities >= 1 /\ n_agents >= 1) => pc # "crashed"

\* C5: auction - the amount taken from a bidder's budget by a decision is at
\* most the (budget-capped) bid that bidder entered for the item.
C5_DebitAtMostBid ==
    [][(pc = "decide" /\ pc' # "crashed") =>
          \A a \in Agents : budget[a] - budget'[a] <= bids[a]]_vars

\* C6: auction - every bidder starts with a budget of 1000 and no step of a
\* run raises a bidder's budget.
C6_BudgetNeverRises ==
    [][/\ pc = "setup" => \A a \in Agents : budget[a] = StartBudget
       /\ pc' # "crashed" => \A a \in Agents : budget'[a] <= budget[a]]_vars

\* the agents with an entry in bids
Bidders == {a \in Agents : bids[a] > 0}

\* C7: auction - a decision over an item with at least one positive bid
\* records a winner, that winner is one of the agents whose positive bid is
\* in bids for that item, the item goes to that agent, and a sole bidder is
\* the winner whatever the auctioneer answered.
C7_WinnerIsBidder ==
    [][pc = "decide" =>
          /\ pc' # "crashed"
          /\ LET result == auction_results'[Len(auction_results')]
             IN  /\ result.city = city_idx
                 /\ result.winner \in Bidders
                 /\ \A a \in Agents : Bidders = {a} => result.winner = a
                 /\ agent_assignments'[result.winner] =
                        Append(agent_assignments[result.winner], city_idx)]_vars

\* C8: unit square, one agent, any topology - at the end of the run the
\* agent holds all 4 cities, and if every oracle call failed the total
\* distance is 40.
C8_SquareOneAgent ==
    (cities = Square /\ n_agents = 1 /\ pc = "done") =>
        /\ Len(agent_assignments[0]) = 4
        /\ Range(agent_assignments[0]) = 0..3
        /\ all_calls_failed => total_distance = 4000

\* the cities of the agent whose route is planned by the step from pc
StepCities ==
    IF topology = "hierarchical" THEN clusters[cur + 1]
    ELSE agent_assignments[cur]

\* a route-planning step that recorded a result for agent cur
RouteRecorded ==
    /\ pc \in {"route", "follower"}
    /\ pc' # "crashed"
    /\ cur' = cur + 1

\* a duplicate-free list of the right length in local 0-based indices
IsLocalOrder(l, city_indices) ==
    /\ Len(l) = Len(city_indices)
    /\ NoDup(l)
    /\ \A k \in 1..Len(l) : l[k] \in 0..(Len(city_indices) - 1)

\* a duplicate-free list of the right length in global city indices
IsGlobalOrder(l, city_indices) ==
    /\ Len(l) = Len(city_indices)
    /\ NoDup(l)
    /\ \A k \in 1..Len(l) : Contains(city_indices, l[k])

\* the visiting orders, in global indices, a proposed list can stand for
Readings(l, city_indices) ==
    (IF IsLocalOrder(l, city_indices)
     THEN {[k \in 1..Len(l) |-> city_indices[l[k] + 1]]} ELSE {})
    \cup (IF IsGlobalOrder(l, city_indices) THEN {l} ELSE {})

\* the proposal of a route answer, as a list, if it has one
IsListAnswer(resp) == resp.kind = "obj" /\ resp.field = "list"

\* C9: route validation - when an agent with at least 2 cities answers a
\* duplicate-free list of the length of its assignment in local or in
\* global indices, the recorded route is the proposed order and the
\* recorded distance is the closed-tour length of that order.
C9_ValidProposalAccepted ==
    [][(/\ RouteRecorded
        /\ Len(StepCities) >= 2
        /\ IsListAnswer(route_response')
        /\ Readings(route_response'.list, StepCities) # {}) =>
          \E g \in Readings(route_response'.list, StepCities) :
              /\ agent_routes'[cur] = ListRoute(g)
              /\ agent_distances'[cur] = calculate_route_distance(cities, g)]_vars

\* the nearest-neighbour route over an assignment, in global indices
NNGlobalRoute(city_indices) ==
    LET route == nearest_neighbor_route(Coords(cities, city_indices))
    IN  [k \in 1..Len(route) |-> city_indices[route[k] + 1]]

\* C10: route repair - when the answer of an agent with at least 2 cities
\* is not a valid proposal (unparseable, no route field, not a list, wrong
\* length, duplicates, unknown values), the recorded route and distance are
\* those of the nearest-neighbour construction; with 0 or 1 cities the
\* recorded distance is 0.
C10_InvalidProposalRepaired ==
    [][RouteRecorded =>
          IF Len(StepCities) <= 1
          THEN agent_distances'[cur] = 0
          ELSE (~(/\ IsListAnswer(route_response')
                  /\ Readings(route_response'.list, StepCities) # {})) =>
                   /\ agent_routes'[cur] = ListRoute(NNGlobalRoute(StepCities))
                   /\ agent_distances'[cur] =
                          nearest_neighbor_distance(Coords(cities, StepCities))]_vars

\* C11: configuration errors - with zero agents or an empty city list the
\* evaluation makes no oracle call, emits no coordination event and does
\* not return a result: it fails before the first call.
C11_BadConfigFailsFirst ==
    (n_agents = 0 \/ NCities = 0) =>
        /\ llm_calls = 0
        /\ communications = 0
        /\ pc # "done"

\* the generator state k draws after state r
RECURSIVE RngAfter(_, _)
RngAfter(r, k) == IF k = 0 THEN r ELSE RngAfter(RngNext(r), k - 1)

communication_overhead == communications

\* C13: event-log isolation - the communication_overhead a run returns is
\* the number of coordination events emitted during that run alone, also
\* when another evaluation ran before it in the same process.
C13_OverheadOfThisRunOnly ==
    pc = "done" => communication_overhead = communications - events_before

C15_FlatLoadFairness ==
    (topology = "flat" /\ pc = "done") =>
        /\ load_fairness >= 0
        /\ (\A i, j \in 1..Len(agent_loads) : agent_loads[i] = agent_loads[j])
               => load_fairness = 0
        /\ SumSeq(agent_loads) = 0 => load_fairness = 0
        /\ (\E i, j \in 1..Len(agent_loads) : agent_loads[i] # agent_loads[j])
               => load_fairness > 0

\* C15 witness: a flat run has ended with one agent holding both cities and
\* the other none.
C15_UnevenLoads ==
    /\ topology = "flat"
    /\ pc = "done"
    /\ agent_loads \in {<<2, 0>>, <<0, 2>>}

\* the legs of the closed tour over order: each city to the next one, and
\* the last city back to the first
ClosedTourLegs(cs, order) ==
    [k \in 1..Len(order) |->
        IF k < Len(order)
        THEN calculate_distance(cs[order[k] + 1], cs[order[k + 1] + 1])
        ELSE calculate_distance(cs[order[k] + 1], cs[order[1] + 1])]

\* C16: nearest_neighbor_tsp on a non-empty city list and a start index
\* within the list returns (does not raise) an order that begins at the
\* start index and holds every index 0..n-1 exactly once, and the returned
\* length is the closed-tour length of that order.
C16_NearestNeighborTour ==
    (/\ u_call.op = "nearest_neighbor_tsp"
     /\ NCities >= 1
     /\ u_call.arg \in CityIdx) =>
        /\ ~u_result.raised
        /\ u_result.order[1] = u_call.arg
        /\ Len(u_result.order) = NCities
        /\ \A c \in CityIdx : Count(u_result.order, c) = 1
        /\ u_result.value =
               FloatSumFrom(0, ClosedTourLegs(cities, u_result.order))

\* C16 witness: the helper was called on four cities, two of them at the
\* same place, with a start index other than 0.
C16_StartedAwayFromZero ==
    /\ u_call.op = "nearest_neighbor_tsp"
    /\ NCities = 4
    /\ u_call.arg = 2
    /\ cities[1] = cities[4]
    /\ ~u_result.raised

\* calculate_route_distance was applied to an order of all the cities and
\* then to that order rotated or reversed
RotatedOrReversed ==
    /\ u_call.op = "calculate_route_distance"
    /\ u_call.variant \in {"rotated", "reversed"}

Abs(x) == IF x < 0 THEN -x ELSE x

Max(x, y) == IF x < y THEN y ELSE x

\* C17: calculate_route_distance is a closed-tour length - for an order
\* that is a permutation of the city indices the result is unchanged when
\* the order is rotated to start at another position and when it is
\* reversed.
C17_RotationReversalExact ==
    RotatedOrReversed => u_result.value = u_result.before

\* C17 as the code has it: the legs of the rotated or reversed order are
\* the same but their floating-point additions round in another order, so
\* the result stays within len(order) units in the last place of the larger
\* result, and is unchanged for orders of at most 2 cities.
C17_RotationReversalRounded ==
    RotatedOrReversed =>
        /\ Abs(u_result.value - u_result.before)
               <= Len(u_call.order) * Ulp(Max(u_result.value, u_result.before))
        /\ Len(u_call.order) <= 2 => u_result.value = u_result.before

\* C17 witness: the result for a rotated or reversed order of four cities
\* differs from the result for the order itself.
C17_RoundedDifferently ==
    /\ RotatedOrReversed
    /\ Len(u_call.order) = 4
    /\ u_result.value # u_result.before

\* C18: call_llm never raises - however the request goes it returns a
\* string, the explicit failure message unless the request succeeded, and
\* the logger holds exactly one call record per invocation.  (The failure
\* message is no JSON text, so the evaluations read it as an answer of kind
\* "fail", like an unparseable proposal.)
C18_CallNeverRaises ==
    u_call.op = "call_llm" =>
        /\ ~u_result.raised
        /\ u_result.text \in {"content", "failure"}
        /\ u_result.text = "content" <=> u_call.variant = "ok"
        /\ llm_calls = u_call.arg

\* C18 witness: two invocations in a row, the second with a response whose
\* content is None.
C18_SecondCallFailed ==
    /\ u_call.op = "call_llm"
    /\ u_call.arg = 2
    /\ u_call.variant = "no_content"
    /\ u_result.text = "failure"

\* the auctioneer's answer cannot be parsed, or names a winner that has no
\* bid on the item
FallbackAnswer(resp) ==
    \/ resp.kind = "fail"
    \/ /\ resp.kind = "obj"
       /\ resp.winner_field = "value"
       /\ resp.winner \notin Bidders

\* the bidders with the highest bid on the item
TopBidders == {w \in Bidders : \A o \in Bidders : bids[o] <= bids[w]}

\* C19: auction fallback - when the auctioneer's answer is unparseable or
\* names a winner that is not among the item's bidders, the decision is
\* made all the same, the winner is the bidder with the highest bid, the
\* lowest-numbered one among equal highest bids, and the price recorded and
\* taken from the winner's budget is exactly that bidder's own bid.
C19_FallbackToHighestBidder ==
    [][\A resp \in DecisionResponses :
          (pc = "decide" /\ FallbackAnswer(resp) /\ AuctionDecide(resp)) =>
              /\ pc' # "crashed"
              /\ LET result == auction_results'[Len(auction_results')]
                 IN  /\ result.city = city_idx
                     /\ result.winner \in TopBidders
                     /\ \A o \in TopBidders : result.winner <= o
                     /\ result.winning_bid = bids[result.winner]
                     /\ budget'[result.winner] =
                            FloatSub(budget[result.winner],
                                     bids[result.winner])]_vars

\* C19 witness: the first city was decided by the fallback among two
\* bidders for the price 50, the lowest bid there is, and went to bidder 0:
\* both had bid 50.
C19_TieWentToFirstBidder ==
    /\ topology = "auction"
    /\ n_agents = 2
    /\ Len(auction_results) = 1
    /\ auction_results[1].reasoning = "Fallback to highest bidder"
    /\ auction_results[1].total_bids = 2
    /\ auction_results[1].winner = 0
    /\ auction_results[1].winning_bid = 50 * PerUnit

\* the answer to the bidding prompt cannot be parsed, or its bid_amount is
\* not a number
NoNumberBid(resp) ==
    \/ resp.kind = "fail"
    \/ resp.kind = "obj" /\ resp.field \in {"text", "null"}

\* C20: auction bidding - an agent whose remaining budget is <= 0 is not
\* asked to bid, enters no bid and cannot win; every bid entered is
\* positive and at most the bidder's remaining budget; an unparseable or
\* non-numeric bid counts as 0: the bidder enters no bid and the auction
\* goes on.
C20_BidsWithinBudget ==
    [][/\ \A resp \in BidResponses :
            (pc = "bid" /\ AuctionBid(resp)) =>
                /\ budget[cur] <= 0 =>
                       (llm_calls' = llm_calls /\ pc' # "crashed"
                           /\ bids'[cur] = 0)
                /\ (pc' # "crashed" /\ bids'[cur] > 0) =>
                       bids'[cur] <= budget[cur]
                /\ (budget[cur] > 0 /\ NoNumberBid(resp)) =>
                       (pc' # "crashed" /\ bids' = bids)
       /\ (pc = "decide" /\ pc' # "crashed") =>
              budget[auction_results'[Len(auction_results')].winner] > 0]_vars

\* the last bidder has answered (or was skipped) and no bid was entered for
\* the item
NoBidCollected ==
    /\ pc = "bid"
    /\ cur + 1 = n_agents
    /\ pc' # "crashed"
    /\ \A a \in Agents : bids'[a] = 0

\* C21: auction with no valid bids - when the bids for an item have been
\* collected and nobody entered a valid one, the result recorded for the
\* item has no winner, price 0 and bid count 0, the auctioneer is not
\* called for the item (the only oracle call of the step is the last
\* bidder's), and every budget and assigned-city list is left as it was.
C21_NoBidsNoAuction ==
    [][NoBidCollected =>
          /\ auction_results' =
                 Append(auction_results,
                        [city |-> city_idx, winner |-> NoAgent,
                         winning_bid |-> 0, total_bids |-> 0,
                         reasoning |-> "No bids received"])
          /\ pc' # "decide"
          /\ llm_calls' = llm_calls + (IF budget[cur] > 0 THEN 1 ELSE 0)
          /\ communications' = communications
          /\ budget' = budget
          /\ agent_assignments' = agent_assignments]_vars

\* C21 witness: two bidders, the only city went without a bid.
C21_CityWithoutBid ==
    /\ topology = "auction"
    /\ n_agents = 2
    /\ pc = "route"
    /\ Len(auction_results) = 1
    /\ auction_results[1].winner = NoAgent
    /\ auction_results[1].total_bids = 0
    /\ \A a \in Agents : budget[a] = StartBudget /\ agent_assignments[a] = <<>>

\* the records so far are those of cities 0, 1, ... in this order
RecordsInCityOrder ==
    \A k \in 1..Len(auction_results) : auction_results[k].city = k - 1

\* C22: auction ordering - cities are auctioned one at a time in increasing
\* index: the bidders are asked in turn for the city whose index is the
\* number of records so far, the auctioneer decides only after the last
\* bidder, a decision records the result, debits the winner and assigns the
\* city before the bidding for the next city starts from an empty bid set,
\* each city gets exactly one record, in city order, and a record is never
\* modified once appended.
C22_OneAuctionAtATime ==
    [][(topology = "auction" /\ n_agents >= 1 /\ pc' # "crashed") =>
          /\ RecordsInCityOrder'
          /\ SubSeq(auction_results', 1, Len(auction_results)) = auction_results
          /\ Len(auction_results') <= Len(auction_results) + 1
          /\ pc' \in {"route", "done"} => Len(auction_results') = NCities
          /\ pc = "bid" =>
                 /\ city_idx < NCities
                 /\ cur' = (IF cur + 1 = n_agents THEN 0 ELSE cur + 1)
                 /\ cur + 1 < n_agents =>
                        (pc' = "bid" /\ auction_results' = auction_results)
                 /\ \A a \in Agents : a > cur => bids'[a] = 0
          /\ pc' = "decide" =>
                 (pc = "bid" /\ cur + 1 = n_agents
                     /\ auction_results' = auction_results)
          /\ pc = "decide" =>
                 LET result == auction_results'[Len(auction_results')]
                 IN  /\ Len(auction_results') = Len(auction_results) + 1
                     /\ agent_assignments'[result.winner] =
                            Append(agent_assignments[result.winner], city_idx)
                     /\ budget'[result.winner] =
                            FloatSub(budget[result.winner], result.winning_bid)
                     /\ pc' \in {"bid", "route"}
                     /\ cur' = 0
                     /\ \A a \in Agents : bids'[a] = 0]_vars

\* C22 witness: one bidder, four cities auctioned, the first one won and
\* the second one left without a bid.
C22_FourAuctionsRecorded ==
    /\ topology = "auction"
    /\ pc = "route"
    /\ Len(auction_results) = 4
    /\ auction_results[1].winner = 0
    /\ auction_results[2].winner = NoAgent

(***************************************************************************)
(* Flat negotiation: conflicts, claims, rounds                             *)
(***************************************************************************)
\* C23: every contested city is given in the round of the conflict to one
\* of its claimants; when the mediator's answer cannot be parsed, or names
\* an agent that did not claim the city, the claimant picked by the seeded
\* generator gets it.
C23_ConflictResolvedToClaimant ==
    [][\A resp \in MediatorResponses :
          (resp.kind # "nonobj" /\ FlatMediate(resp)) =>
              LET city == conflicts[cur + 1]
                  claimants == Claimants(round_claims, city)
                  named == /\ resp.kind = "obj"
                           /\ resp.has_winner
                           /\ Contains(claimants, resp.winner)
              IN  /\ \E w \in Range(claimants) :
                         resolved_assignments' =
                             Append(resolved_assignments, <<city, w>>)
                  /\ ~named =>
                         resolved_assignments' =
                             Append(resolved_assignments,
                                    <<city, RandomChoice(claimants, rng)>>)]_vars

\* C24: the claims accepted from an agent in a round are at most 3 and all
\* lie in the pool, which is still the pool the round started with; the
\* accepted list is what the answer gives once its entries outside the pool
\* are left out, and the answer changes nothing but the bookkeeping of the
\* call: pool, assignments and the other agents' claims stay as they were.
C24_AcceptedClaimsFromPool ==
    [][\A resp \in ListResponses(ClaimLists) :
          (FlatClaim(resp) /\ pc' # "crashed") =>
              LET answered == ParsedClaims(resp)
                  inPool(c) == \E k \in 1..Len(unassigned_cities) :
                                   unassigned_cities[k] = c
                  kept == SelectSeq(answered, inPool)
              IN  /\ Len(round_claims'[cur]) <= 3
                  /\ \A k \in 1..Len(round_claims'[cur]) :
                         inPool(round_claims'[cur][k])
                  /\ round_claims'[cur] =
                         SubSeq(kept, 1, IF Len(kept) < 3 THEN Len(kept) ELSE 3)
                  /\ \A a \in Agents \ {cur} :
                         round_claims'[a] = round_claims[a]
                  /\ unassigned_cities' = unassigned_cities
                  /\ agent_assignments' = agent_assignments
                  /\ round_num' = round_num
                  /\ rng' = rng]_vars

\* C24 witness: the only agent claimed all four cities of the first round's
\* pool and three were accepted.
C24_FourClaimedThreeAccepted ==
    /\ topology = "flat"
    /\ pc = "apply"
    /\ round_num = 0
    /\ unassigned_cities = <<0, 1, 2, 3>>
    /\ round_claims[0] = <<0, 1, 2>>

\* C25: the mediator is only asked about cities with more than one
\* claimant; at the end of a round a city with exactly one claimant has
\* moved from the pool to the end of that claimant's list, and a pool city
\* with no claimant is still in the pool.
C25_SoleClaimantGetsCity ==
    [][(topology = "flat" /\ pc' # "crashed") =>
          /\ pc = "mediate" =>
                 Len(Claimants(round_claims, conflicts[cur + 1])) > 1
          /\ pc = "apply" =>
                 \A k \in 1..Len(unassigned_cities) :
                     LET city == unassigned_cities[k]
                         claimants == Claimants(round_claims, city)
                     IN  /\ Len(claimants) = 1 =>
                                /\ ~Contains(conflicts, city)
                                /\ ~Contains(unassigned_cities', city)
                                /\ Contains(agent_assignments'[claimants[1]], city)
                                /\ \A a \in Agents \ {claimants[1]} :
                                       ~Contains(agent_assignments'[a], city)
                         /\ Len(claimants) = 0 =>
                                /\ Contains(unassigned_cities', city)
                                /\ \A a \in Agents :
                                       ~Contains(agent_assignments'[a], city)]_vars

\* C25 witness: of two cities the first was claimed by Agent_0 alone and the
\* second by nobody; after the round, and four oracle calls (two
\* assessments, two claims), Agent_0 holds the first and the second is still
\* in the pool.
C25_OneClaimedOneLeft ==
    /\ topology = "flat"
    /\ n_agents = 2
    /\ round_num = 1
    /\ llm_calls = 4
    /\ agent_assignments[0] = <<0>>
    /\ agent_assignments[1] = <<>>
    /\ unassigned_cities = <<1>>

\* C26: with at least one agent and one city, a flat run executes at most
\* max_negotiation_rounds rounds, asks the agents for their claims one after
\* the other, once each per round, makes claim and mediator calls only while
\* the pool is not empty, and no step before the route planning ends the
\* run with an exception, whatever the oracle answers.
C26_NegotiationReachesRoutes ==
    [][(topology = "flat" /\ n_agents >= 1 /\ NCities >= 1) =>
          /\ round_num' <= max_negotiation_rounds
          /\ pc \in {"claim", "mediate"} =>
                 /\ round_num < max_negotiation_rounds
                 /\ unassigned_cities # <<>>
          /\ (pc = "claim" /\ pc' # "crashed") =>
                 /\ llm_calls' = llm_calls + 1
                 /\ IF cur + 1 < n_agents
                    THEN pc' = "claim" /\ cur' = cur + 1
                    ELSE pc' \in {"mediate", "apply"} /\ cur' = 0
          /\ (pc = "apply" /\ pc' = "claim") => (cur' = 0 /\ round_num' = round_num + 1)
          /\ pc \in {"assess", "claim", "mediate", "apply", "leftover"} =>
                 pc' # "crashed"]_vars

\* C27: within a round the agents are asked for their claims in
\* registration order, from the first to the last, before the mediator is
\* asked anything; the mediator goes through all the conflicts, with the
\* claims fixed, before the round's assignments are applied; the pool and
\* the assignment lists change in no claim step and in no mediation step.
C27_ClaimsThenMediationsThenAssignments ==
    [][(topology = "flat" /\ n_agents >= 1 /\ pc' # "crashed") =>
          /\ (pc' = "claim" /\ pc # "claim") => cur' = 0
          /\ pc = "claim" =>
                 /\ IF cur + 1 < n_agents
                    THEN pc' = "claim" /\ cur' = cur + 1
                    ELSE pc' \in {"mediate", "apply"} /\ cur' = 0
                 /\ \A a \in Agents : a > cur => round_claims'[a] = <<>>
                 /\ \A a \in Agents : a < cur => round_claims'[a] = round_claims[a]
                 /\ resolved_assignments' = <<>>
          /\ pc' = "mediate" =>
                 \/ pc = "claim" /\ cur + 1 = n_agents
                 \/ pc = "mediate" /\ cur + 1 < Len(conflicts)
          /\ pc = "mediate" =>
                 /\ round_claims' = round_claims
                 /\ conflicts' = conflicts
                 /\ cur + 1 = Len(conflicts) => pc' = "apply"
          /\ pc' = "apply" =>
                 \/ pc = "claim" /\ cur + 1 = n_agents /\ conflicts' = <<>>
                 \/ pc = "mediate" /\ cur + 1 = Len(conflicts)
          /\ pc \in {"claim", "mediate"} =>
                 /\ unassigned_cities' = unassigned_cities
                 /\ agent_assignments' = agent_assignments
          /\ (unassigned_cities' # unassigned_cities
                 \/ agent_assignments' # agent_assignments) =>
                 pc \in {"apply", "leftover"}]_vars

\* C27 witness: both agents claimed both cities; the mediator has decided
\* the first conflict and is about to be asked about the second, while the
\* pool is whole and nobody holds a city.
C27_BetweenTwoMediations ==
    /\ topology = "flat"
    /\ pc = "mediate"
    /\ cur = 1
    /\ conflicts = <<0, 1>>
    /\ Len(resolved_assignments) = 1
    /\ unassigned_cities = <<0, 1>>
    /\ \A a \in Agents : agent_assignments[a] = <<>>

\* C28: while a flat negotiation runs, and so at the end of each of its
\* rounds, every city is exactly once in the pool or in one agent's list,
\* and the pool and the lists hold nothing but cities; at no point of a flat
\* run is a city in two lists or twice in one.
C28_PoolAndListsPartitionCities ==
    topology = "flat" =>
        /\ \A c \in CityIdx : Holdings(c) <= 1
        /\ pc \in {"assess", "claim", "mediate", "apply", "leftover"} =>
               /\ \A c \in CityIdx :
                      Holdings(c) + Count(unassigned_cities, c) = 1
               /\ Range(unassigned_cities) \subseteq CityIdx
               /\ \A a \in Agents : Range(agent_assignments[a]) \subseteq CityIdx

\* C28 witness: after the first round the only agent holds three of the
\* four cities and the fourth is in the pool.
C28_ThreeHeldOneInPool ==
    /\ topology = "flat"
    /\ n_agents = 1
    /\ round_num = 1
    /\ pc \in {"claim", "leftover"}
    /\ agent_assignments[0] = <<0, 1, 2>>
    /\ unassigned_cities = <<3>>

(***************************************************************************)
(* Auction: holdings and budgets                                           *)
(***************************************************************************)
\* auctions recorded so far that bidder a won
AuctionsWon(a) == {k \in 1..Len(auction_results) : auction_results[k].winner = a}

\* C29: at every point of an auction run no city is in two bidders' lists
\* or twice in one, a city is in a bidder's list exactly when the record of
\* that city's auction names that bidder the winner, each list is as long as
\* the number of auctions its bidder won, and so is each reported load.
C29_HoldingsMatchRecordedWinners ==
    topology = "auction" =>
        /\ \A c \in CityIdx : Holdings(c) <= 1
        /\ \A a \in Agents :
               /\ \A c \in 0..NCities :
                      Contains(agent_assignments[a], c) <=>
                          (c < Len(auction_results)
                              /\ auction_results[c + 1].winner = a)
               /\ Len(agent_assignments[a]) = Cardinality(AuctionsWon(a))
               /\ a < Len(agent_loads) =>
                      agent_loads[a + 1] = Cardinality(AuctionsWon(a))

\* C29 witness: two bidders, one city; the second bidder won its auction
\* and the run reported the loads 0 and 1.
C29_SecondBidderWon ==
    /\ topology = "auction"
    /\ n_agents = 2
    /\ pc = "done"
    /\ Len(auction_results) = 1
    /\ auction_results[1].winner = 1
    /\ agent_assignments[1] = <<0>>
    /\ agent_loads = <<0, 1>>

\* C30: at every point of an auction run every bidder's remaining budget is
\* at least 0 and at most the 1000 it started with, whatever was bid and
\* whatever the auctioneer answered.
C30_BudgetWithinBounds ==
    topology = "auction" =>
        \A a \in Agents : 0 <= budget[a] /\ budget[a] <= StartBudget

\* what the bidders have paid, and what the recorded auctions cost, as
\* numbers without rounding
ExactSpent == SumSeq([k \in 1..n_agents |-> StartBudget - budget[k - 1]])

ExactRevenue == SumSeq(RecordedPrices(auction_results))

\* the starting budget plus the size of every recorded price: no budget of
\* the run is larger in size
Magnitude ==
    StartBudget
        + SumSeq([k \in 1..Len(RecordedPrices(auction_results)) |->
                     Abs(RecordedPrices(auction_results)[k])])

WholeUnitPrices ==
    \A k \in 1..Len(auction_results) :
        auction_results[k].winning_bid % PerUnit = 0

IsPrefix(s, t) == Len(s) <= Len(t) /\ SubSeq(t, 1, Len(s)) = s

\* the entries of t after its beginning s
Added(s, t) == SubSeq(t, Len(s) + 1, Len(t))

\* C32: in a flat run every step that does not raise leaves each agent's
\* list as it was, or longer at its end: no city is moved or removed.  Only
\* the end of a round and the leftover distribution add cities, the cities
\* they add were in the pool, and the leftover distribution adds every pool
\* city once and nothing else.
C32_AssignmentsOnlyGrow ==
    [][(topology = "flat" /\ pc' # "crashed") =>
          /\ \A a \in Agents :
                 /\ IsPrefix(agent_assignments[a], agent_assignments'[a])
                 /\ \A k \in 1..Len(Added(agent_assignments[a],
                                          agent_assignments'[a])) :
                        Contains(unassigned_cities,
                                 Added(agent_assignments[a],
                                       agent_assignments'[a])[k])
          /\ pc \notin {"apply", "leftover"} =>
                 agent_assignments' = agent_assignments
          /\ pc = "leftover" =>
                 \A k \in 1..Len(unassigned_cities) :
                     SumSeq([i \in 1..n_agents |->
                                Count(Added(agent_assignments[i - 1],
                                            agent_assignments'[i - 1]),
                                      unassigned_cities[k])]) = 1]_vars

\* C32 witness: of two cities Agent_0 got the first at the end of a round
\* and the second, which was still in the pool, from the leftover
\* distribution; its list holds them in that order.
C32_RoundCityThenLeftoverCity ==
    /\ topology = "flat"
    /\ n_agents = 2
    /\ pc = "route"
    /\ unassigned_cities = <<1>>
    /\ agent_assignments[0] = <<0, 1>>

(***************************************************************************)
(* Reported routes and distances                                           *)
(***************************************************************************)
\* l holds the entries of s, each as often as s does
IsPermutationOf(l, s) ==
    /\ Len(l) = Len(s)
    /\ \A k \in 1..Len(s) : Count(l, s[k]) = Count(s, s[k])

\* C33: in every topology, whatever the oracle answered, the route recorded
\* for an agent is a list that holds exactly the cities assigned to that
\* agent, in global indices, each once - also when the agent has a single
\* city.
C33_RouteIsPermutationOfAssignment ==
    [][RouteRecorded =>
          /\ agent_routes'[cur].shape = "list"
          /\ IsPermutationOf(agent_routes'[cur].items, StepCities)]_vars

\* the closed-tour length of a recorded route, if it is a list of city
\* indices
TourLengthIs(route, d) ==
    /\ route.shape = "list"
    /\ \A k \in 1..Len(route.items) : route.items[k] \in CityIdx
    /\ d = (IF Len(route.items) <= 1 THEN 0
            ELSE calculate_route_distance(cities, route.items))

\* C34: in every topology the distance recorded for an agent is the
\* closed-tour length of the route recorded for that agent, whether the
\* route is an accepted proposal in local indices, an accepted proposal in
\* global indices or a fallback.
C34_DistanceIsLengthOfRoute ==
    [][RouteRecorded =>
          TourLengthIs(agent_routes'[cur], agent_distances'[cur])]_vars

(***************************************************************************)
(* TSPUtils: greedy construction, 2-opt, clustering                        *)
(***************************************************************************)
\* C35: every city of the order nearest_neighbor_tsp returns, after the
\* first, was unvisited and no unvisited city was nearer to the city before
\* it, and of the unvisited cities at that same distance it has the lowest
\* index; the order is therefore fixed by the city list and the start.
C35_GreedyLowestIndexOnTies ==
    (u_call.op = "nearest_neighbor_tsp" /\ ~u_result.raised) =>
        \A k \in 2..Len(u_result.order) :
            LET current == u_result.order[k - 1]
                next == u_result.order[k]
                visited == {u_result.order[i] : i \in 1..(k - 1)}
                dist(c) == calculate_distance(cities[current + 1], cities[c + 1])
            IN  /\ next \in CityIdx \ visited
                /\ \A c \in CityIdx \ visited :
                       \/ dist(next) < dist(c)
                       \/ dist(next) = dist(c) /\ next <= c

\* C35 witness: from the first of three cities the other two are equally
\* far, and the one with the lower index was visited first.
C35_TieWentToLowerIndex ==
    /\ u_call.op = "nearest_neighbor_tsp"
    /\ u_call.arg = 0
    /\ cities = << <<10, 0>>, <<0, 0>>, <<10, 10>> >>
    /\ u_result.order = <<0, 1, 2>>

\* the first reversal of a pass that is shorter than the order the pass began
\* with, or that order when there is none
RECURSIVE FirstShorter(_, _, _)
FirstShorter(cs, route, pairs) ==
    IF pairs = <<>> THEN route
    ELSE LET new_route == ReverseSegment(route, Head(pairs)[1], Head(pairs)[2])
         IN  IF calculate_route_distance(cs, new_route)
                  < calculate_route_distance(cs, route)
             THEN new_route
             ELSE FirstShorter(cs, route, Tail(pairs))

\* passes that each accept the first shorter reversal, until a pass finds none
\* or the given number of passes is made
RECURSIVE FirstImprovementPasses(_, _, _)
FirstImprovementPasses(cs, route, passes) ==
    IF passes <= 0 THEN route
    ELSE LET next == FirstShorter(cs, route, SegmentPairs(Len(route)))
         IN  IF next = route THEN route
             ELSE FirstImprovementPasses(cs, next, passes - 1)

\* C36: optimize_route_2opt returns the order reached by first-improvement
\* passes: each pass accepts the first segment reversal that strictly shortens
\* the tour, and passes repeat until one finds no improvement or
\* max_iterations passes were made
C36_FirstImprovementPasses ==
    u_call.op = "optimize_route_2opt"
        => u_result.order
             = FirstImprovementPasses(cities, u_call.order, u_call.arg)

\* the shortest reversal of the order a pass began with, the earliest in loop
\* order among equally short ones, or that order when no reversal is shorter
BestReversal(cs, route) ==
    LET pairs == SegmentPairs(Len(route))
        cand(k) == ReverseSegment(route, pairs[k][1], pairs[k][2])
        len(k) == calculate_route_distance(cs, cand(k))
    IN  IF \A k \in 1..Len(pairs) : len(k) >= calculate_route_distance(cs, route)
        THEN route
        ELSE cand(CHOOSE k \in 1..Len(pairs) :
                     \A m \in 1..Len(pairs) :
                         len(k) < len(m) \/ (len(k) = len(m) /\ k <= m))

RECURSIVE BestImprovementPasses(_, _, _)
BestImprovementPasses(cs, route, passes) ==
    IF passes <= 0 THEN route
    ELSE LET next == BestReversal(cs, route)
         IN  IF next = route THEN route
             ELSE BestImprovementPasses(cs, next, passes - 1)

\* C36 (amended): optimize_route_2opt returns the order reached by
\* best-improvement passes: each pass tries every segment reversal of the
\* order it began with and, when some reversal strictly shortens the tour,
\* accepts the shortest of them (the earliest among equally short ones);
\* passes repeat until one finds no improvement or max_iterations passes
\* were made
C36_BestImprovementPasses ==
    u_call.op = "optimize_route_2opt"
        => u_result.order
             = BestImprovementPasses(cities, u_call.order, u_call.arg)

\* one pass in which the first shorter reversal, <<0, 2, 1, 3>>, is passed
\* over for the later and shorter <<0, 1, 3, 2>>
C36_LaterShorterReversalTaken ==
    /\ u_call.op = "optimize_route_2opt"
    /\ u_call.arg = 1
    /\ u_call.order = <<0, 1, 2, 3>>
    /\ cities = << <<10, 0>>, <<0, 0>>, <<10, 10>>, <<3, 4>> >>
    /\ FirstShorter(cities, u_call.order, SegmentPairs(4)) = <<0, 2, 1, 3>>
    /\ u_result.order = <<0, 1, 3, 2>>

\* C37: optimize_route_2opt never makes a route worse: the returned order is a
\* permutation of the given one, the returned length is the closed-tour length
\* of the returned order and is at most the given order's length, and the
\* caller's list is still the order that was given
C37_TwoOptNeverWorse ==
    u_call.op = "optimize_route_2opt"
        => /\ IsPermutationOf(u_result.order, u_call.order)
           /\ u_result.value = calculate_route_distance(cities, u_result.order)
           /\ u_result.value <= u_result.before
           /\ u_result.before = calculate_route_distance(cities, u_call.order)
           /\ u_call.order \in TwoOptOrders

C37_TwoPassesShortenedTheTour ==
    /\ u_call.op = "optimize_route_2opt"
    /\ u_call.arg = 2
    /\ u_call.order = <<0, 1, 2, 3>>
    /\ u_result.order # u_call.order
    /\ u_result.value < u_result.before

\* number of clusters of cl that hold city c, counted with repetition
ClusterHoldings(cl, c) == SumSeq([k \in 1..Len(cl) |-> Count(cl[k], c)])

\* C38: for n_clusters >= 1 cluster_cities returns a partition of the city
\* indices: every index 0..n-1 is in exactly one cluster and nothing else is
\* in any; with fewer cities than clusters it is one singleton per city, and
\* otherwise there are exactly n_clusters clusters
C38_ClustersPartitionCities ==
    (u_call.op = "cluster_cities" /\ u_call.arg >= 1)
        => /\ ~u_result.raised
           /\ \A c \in CityIdx : ClusterHoldings(u_result.order, c) = 1
           /\ \A k \in 1..Len(u_result.order) :
                  \A m \in 1..Len(u_result.order[k]) :
                      u_result.order[k][m] \in CityIdx
           /\ NCities < u_call.arg
                  => u_result.order = [i \in 1..NCities |-> <<i - 1>>]
           /\ NCities >= u_call.arg => Len(u_result.order) = u_call.arg

C38_OneCityTwoClusters ==
    /\ u_call.op = "cluster_cities"
    /\ u_call.arg = 2
    /\ NCities = 1
    /\ u_result.order = << <<0>> >>

C38_ThreeCitiesTwoClusters ==
    /\ u_call.op = "cluster_cities"
    /\ u_call.arg = 2
    /\ NCities = 3
    /\ u_result.order = << <<0, 2>>, <<1>> >>

(***************************************************************************)
(* The driver                                                              *)
(***************************************************************************)
\* the entry run_llm_evaluation recorded last
LastEntry == architecture_results[Len(architecture_results)]

\* number of entries of an architecture that are results
ResultsOf(results, arch) ==
    Cardinality({sc \in 1..NumScenarios :
                    ~results[(sc - 1) * Len(Architectures) + arch].error})

\* C39: the logger's two lists are emptied before each architecture run, so
\* after the run they hold the records of that run alone; an evaluation that
\* raises is recorded as an error entry with infinite total_distance and zero
\* communication overhead, and the next run is made all the same; when the
\* comparison is made every architecture of every scenario has an entry, and
\* each architecture's aggregates are taken over its entries that are not
\* error entries
C39_DriverIsolatesErrors ==
    [][/\ \A o \in DriverOutcomes, log_saved \in BOOLEAN :
              RunArchitecture(o, log_saved)
                  => /\ llm_calls' = o.calls
                     /\ communications' = o.events
                     /\ Len(architecture_results') = prior_runs + 1
                     /\ o.raised =>
                            /\ LastEntry'.error
                            /\ LastEntry'.total_distance = Infinity
                            /\ LastEntry'.communication_overhead = 0
                     /\ (~o.raised /\ log_saved) =>
                            /\ ~LastEntry'.error
                            /\ LastEntry'.communication_overhead = o.events
       /\ ComparativeAnalysis
              => /\ Len(architecture_results) = RunsTotal
                 /\ \A arch \in 1..Len(Architectures) :
                        IF ResultsOf(architecture_results, arch) = 0
                        THEN arch \notin DOMAIN comparison'
                        ELSE /\ arch \in DOMAIN comparison'
                             /\ comparison'[arch].total_scenarios
                                  = ResultsOf(architecture_results, arch)
                             /\ comparison'[arch].avg_distance.count
                                  = ResultsOf(architecture_results, arch)
      ]_vars

\* the first scenario's hierarchical evaluation raised, every later one
\* returned, and the comparison counts one hierarchical result
C39_FirstRunRaisedRestCompared ==
    /\ pc = "compared"
    /\ Len(architecture_results) = RunsTotal
    /\ architecture_results[1].error
    /\ \A k \in 2..RunsTotal : ~architecture_results[k].error
    /\ comparison[1].total_scenarios = NumScenarios - 1
    /\ comparison[2].total_scenarios = NumScenarios

====
